---------------------------- MODULE Spec2Model ----------------------------
(***************************************************************************)
(* devhelper-cli, `localenv start`: the component lifecycle orchestrator   *)
(* of src/cmd/start.go with its helpers in src/cmd/localenv_helpers.go.    *)
(*                                                                         *)
(* Three specifications share the variables below.                         *)
(*   Spec      one run of startCmd.Run, from the process start to exit.    *)
(*   SpecPure  single calls of the pure functions hasConfigChanged and     *)
(*             get*Requirement on arguments drawn from bounded sets.       *)
(*   SpecOpenSearch  the OpenSearch iterations of the component loop of    *)
(*             the startCmd.Run of src/unnamed/part_005.                   *)
(***************************************************************************)
EXTENDS Integers, Sequences, FiniteSets, TLC

(***************************************************************************)
(* Bounds and program constants                                            *)
(***************************************************************************)

\* Number of distinct non-zero values every tracked port field ranges over.
NumPortValues == 2

\* Defaults written by `localenv init` (src/unnamed/part_003:82-87).
DefaultDashboardPort == 8080
DefaultUIPort == 8233
DefaultGRPCPort == 7233

\* retries := 5 (src/cmd/start.go:801)
TemporalRetries == 5

PortValues(base) == {0} \cup {base + k : k \in 0..(NumPortValues - 1)}

DashboardPorts == PortValues(DefaultDashboardPort)
UIPorts == PortValues(DefaultUIPort)
GRPCPorts == PortValues(DefaultGRPCPort)
Namespaces == {"", "default", "testing"}

(***************************************************************************)
(* Data types                                                              *)
(***************************************************************************)

\* type ConfigCache struct
ConfigCache ==
    [DaprDashboardPort : DashboardPorts,
     TemporalUIPort    : UIPorts,
     TemporalGRPCPort  : GRPCPorts,
     TemporalNamespace : Namespaces]

\* ConfigCache{}: the zero value, what loadConfigCache returns without a file.
ZeroCache ==
    [DaprDashboardPort |-> 0, TemporalUIPort |-> 0,
     TemporalGRPCPort |-> 0, TemporalNamespace |-> ""]

\* type LocalEnvConfig struct, the fields startCmd reads.
LocalEnvConfig ==
    [Components : [Dapr : BOOLEAN, Temporal : BOOLEAN, DaprDashboard : BOOLEAN],
     Temporal   : [Namespace : Namespaces, UIPort : UIPorts, GRPCPort : GRPCPorts],
     Dapr       : [DashboardPort : DashboardPorts]]

\* LocalEnvConfig{}: the zero value the run keeps when no file was loaded.
ZeroConfig ==
    [Components |-> [Dapr |-> FALSE, Temporal |-> FALSE, DaprDashboard |-> FALSE],
     Temporal   |-> [Namespace |-> "", UIPort |-> 0, GRPCPort |-> 0],
     Dapr       |-> [DashboardPort |-> 0]]

(***************************************************************************)
(* Configuration drift detector                                            *)
(***************************************************************************)

\* Variant: the two values are formatted in the order new, old.
ChangeSwapped(label, old, new) == [label |-> label, old |-> new, new |-> old]

\* One entry of the `changes` slice: fmt.Sprintf("<label> changed: %d -> %d",
\* old, new) kept as the label and the two formatted values in print order.
Change(label, old, new) == [label |-> label, old |-> old, new |-> new]

Opt(b, log) == IF b THEN log ELSE <<>>

\* Variant: the snapshot is built without the namespace.
SnapshotOfDropsNamespace(config) ==
    [DaprDashboardPort |-> config.Dapr.DashboardPort,
     TemporalUIPort    |-> config.Temporal.UIPort,
     TemporalGRPCPort  |-> config.Temporal.GRPCPort,
     TemporalNamespace |-> ""]

\* newCache := ConfigCache{...}
SnapshotOf(config) ==
    [DaprDashboardPort |-> config.Dapr.DashboardPort,
     TemporalUIPort    |-> config.Temporal.UIPort,
     TemporalGRPCPort  |-> config.Temporal.GRPCPort,
     TemporalNamespace |-> config.Temporal.Namespace]

\* The four change entries, each present when its test d1..d4 passed.
ChangeEntries(config, currentCache, d1, d2, d3, d4) ==
    Opt(d1, <<Change("Dapr Dashboard port",
                     currentCache.DaprDashboardPort, config.Dapr.DashboardPort)>>)
    \o Opt(d2, <<Change("Temporal UI port",
                        currentCache.TemporalUIPort, config.Temporal.UIPort)>>)
    \o Opt(d3, <<Change("Temporal GRPC port",
                        currentCache.TemporalGRPCPort, config.Temporal.GRPCPort)>>)
    \o Opt(d4, <<Change("Temporal namespace",
                        currentCache.TemporalNamespace, config.Temporal.Namespace)>>)

\* Variant: the comparison without the "previous value is zero" guard.
hasConfigChangedNoZeroGuard(config, currentCache) ==
    LET d1 == currentCache.DaprDashboardPort # config.Dapr.DashboardPort
        d2 == currentCache.TemporalUIPort # config.Temporal.UIPort
        d3 == currentCache.TemporalGRPCPort # config.Temporal.GRPCPort
        d4 == currentCache.TemporalNamespace # config.Temporal.Namespace
    IN  [hasChanges |-> d1 \/ d2 \/ d3 \/ d4,
         newCache   |-> SnapshotOf(config),
         changes    |-> ChangeEntries(config, currentCache, d1, d2, d3, d4)]

\* Variant: the namespace test lost its inequality, so an unchanged non-empty
\* namespace is reported.
hasConfigChangedNamespaceAlways(config, currentCache) ==
    LET d1 == /\ currentCache.DaprDashboardPort # 0
              /\ currentCache.DaprDashboardPort # config.Dapr.DashboardPort
        d2 == /\ currentCache.TemporalUIPort # 0
              /\ currentCache.TemporalUIPort # config.Temporal.UIPort
        d3 == /\ currentCache.TemporalGRPCPort # 0
              /\ currentCache.TemporalGRPCPort # config.Temporal.GRPCPort
        d4 == currentCache.TemporalNamespace # ""
    IN  [hasChanges |-> d1 \/ d2 \/ d3 \/ d4,
         newCache   |-> SnapshotOf(config),
         changes    |-> ChangeEntries(config, currentCache, d1, d2, d3, d4)]

\* func hasConfigChanged(config, currentCache) (bool, ConfigCache, []string)
\* d1..d4 are the conditions of the four if statements, in source order;
\* each body appends its entry and sets hasChanges.
hasConfigChanged(config, currentCache) ==
    LET d1 == /\ currentCache.DaprDashboardPort # 0
              /\ currentCache.DaprDashboardPort # config.Dapr.DashboardPort
        d2 == /\ currentCache.TemporalUIPort # 0
              /\ currentCache.TemporalUIPort # config.Temporal.UIPort
        d3 == /\ currentCache.TemporalGRPCPort # 0
              /\ currentCache.TemporalGRPCPort # config.Temporal.GRPCPort
        d4 == /\ currentCache.TemporalNamespace # ""
              /\ currentCache.TemporalNamespace # config.Temporal.Namespace
    IN  [hasChanges |-> d1 \/ d2 \/ d3 \/ d4,
         newCache   |-> SnapshotOf(config),
         changes    |-> ChangeEntries(config, currentCache, d1, d2, d3, d4)]

(***************************************************************************)
(* Requirement helpers                                                     *)
(***************************************************************************)

\* Variant: the skip flag wins even when a configuration was loaded.
getRequirementSkipWins(configLoaded, configValue, skipFlag) ==
    IF configLoaded THEN configValue /\ ~skipFlag ELSE ~skipFlag

\* func getDaprRequirement(configLoaded bool, configValue bool, skipFlag bool) bool
getDaprRequirement(configLoaded, configValue, skipFlag) ==
    IF configLoaded THEN configValue ELSE ~skipFlag

\* func getTemporalRequirement(configLoaded bool, configValue bool, skipFlag bool) bool
getTemporalRequirement(configLoaded, configValue, skipFlag) ==
    IF configLoaded THEN configValue ELSE ~skipFlag

\* func getDaprDashboardRequirement(configLoaded bool, configValue bool, skipFlag bool) bool
getDaprDashboardRequirement(configLoaded, configValue, skipFlag) ==
    IF configLoaded THEN configValue ELSE ~skipFlag

(***************************************************************************)
(* State                                                                   *)
(***************************************************************************)

VARIABLES
    \* The machine when the process starts.
    cacheFile,      \* content of ~/.config/devhelper-cli/config-cache.yaml
    localenv,       \* localenv.yaml: [loads |-> it exists and parses, config |-> its content]
    flags,          \* command-line flags of `localenv start`
    installed,      \* the commands that isCommandAvailable / `--help` find
    alive,          \* components whose liveness probe succeeds before the run acts
    containers,     \* podman containers by name: "absent", "exited" or "running"
    \* Locals of startCmd.Run.
    config, configLoaded, configCache, configChanged, newCache, changes,
    components, allInstalled, i,
    pc,             \* position of the run
    exitCode,       \* -1 while running, then the exit status 0 or 1
    \* What the run did.
    cmds,           \* commands issued while handling the component last processed
    issued,         \* per component: the kinds of command issued for it so far
    outcome,        \* per component: the branch of the loop body that ended its handling
    \* A single call of a pure function (SpecPure).
    call, ret,
    \* The machine and the locals of stopCmd.Run (SpecStop).
    procs,          \* the processes the lookups of the stop run can find
    logFile,        \* ~/.logs/devhelper-cli/temporal-server.log exists
    stopDapr, stopTemporal, stopDaprDashboard, stoppedCount,
    summary,        \* the closing message of the stop run
    \* One call of tryStartDashboardWithTimeout (SpecDashboardStart).
    timeout,        \* the argument, in clock ticks
    now,            \* the clock
    dashboardCmd,   \* the child process
    launcher,       \* the goroutine that runs dashboardCmd.Run()
    resultChan,     \* make(chan error, 1)
    caller          \* the calling goroutine: position, return value, return time

stopVars == <<procs, logFile, stopDapr, stopTemporal, stopDaprDashboard, stoppedCount,
              summary>>
helperVars == <<timeout, now, dashboardCmd, launcher, resultChan, caller>>

vars == <<cacheFile, localenv, flags, installed, alive, containers,
          config, configLoaded, configCache, configChanged, newCache, changes,
          components, allInstalled, i, pc, exitCode, cmds, issued, outcome, call, ret,
          stopVars, helperVars>>

machineVars == <<localenv, flags, installed, alive, containers>>
driftVars == <<configCache, configChanged, newCache, changes>>
pureVars == <<call, ret>>

(***************************************************************************)
(* Component model                                                         *)
(***************************************************************************)

ComponentNames == <<"Podman", "Kind", "Dapr", "DaprDashboard", "Temporal">>

Names == {ComponentNames[k] : k \in 1..Len(ComponentNames)}

Services == {"Dapr", "DaprDashboard", "Temporal"}

\* The RequiredFor field of each entry of the components slice.
RequiredFor ==
    [Podman |-> {"Kind", "Dapr", "Temporal"}, Kind |-> {"Dapr", "Temporal"},
     Dapr |-> {}, DaprDashboard |-> {}, Temporal |-> {}]

\* The command whose presence sets CommandExists: isCommandAvailable(<binary>)
\* and, for the dashboard, a successful `dapr dashboard --help`.
CommandOf ==
    [Podman |-> "podman", Kind |-> "kind", Dapr |-> "dapr",
     DaprDashboard |-> "dapr dashboard", Temporal |-> "temporal"]

Commands == {CommandOf[n] : n \in Names}

\* Variant: the skip flags are not written into the configuration.
ApplySkipFlagsIgnored(cfg, f) == cfg

\* "Override config with command line flags"
ApplySkipFlags(cfg, f) ==
    [cfg EXCEPT !.Components =
        [Dapr          |-> IF f.skipDapr THEN FALSE ELSE cfg.Components.Dapr,
         Temporal      |-> IF f.skipTemporal THEN FALSE ELSE cfg.Components.Temporal,
         DaprDashboard |-> IF f.skipDaprDashboard THEN FALSE
                           ELSE cfg.Components.DaprDashboard]]

\* The IsRequired field as the components literal computes it.
IsRequiredOf(name, loaded, cfg, f) ==
    CASE name = "Dapr" -> getDaprRequirement(loaded, cfg.Components.Dapr, f.skipDapr)
      [] name = "DaprDashboard" ->
            getDaprDashboardRequirement(loaded, cfg.Components.DaprDashboard,
                                        f.skipDaprDashboard)
      [] name = "Temporal" ->
            getTemporalRequirement(loaded, cfg.Components.Temporal, f.skipTemporal)
      [] OTHER -> TRUE

\* components := []Component{...}
BuildComponents(loaded, cfg, f, inst) ==
    [k \in 1..Len(ComponentNames) |->
        LET name == ComponentNames[k] IN
        [Name            |-> name,
         RequiredFor     |-> RequiredFor[name],
         IsRequired      |-> IsRequiredOf(name, loaded, cfg, f),
         CommandExists   |-> CommandOf[name] \in inst,
         IsRunning       |-> FALSE,
         RequiresStartup |-> name \in Services,
         IsBinary        |-> name \notin Services]]

\* Index of the component called `name`.
IndexOf(name) == CHOOSE k \in 1..Len(ComponentNames) : ComponentNames[k] = name

Comp(name) == components[IndexOf(name)]

(***************************************************************************)
(* Commands                                                                *)
(***************************************************************************)

Cmd(name, arg) == [cmd |-> name, arg |-> arg]

KillCmds == {"kill", "kill -9", "kill -9 owners"}
StartCmds == {"dapr init", "dapr dashboard", "temporal server start-dev"}
ProbeCmds == {"VerifyAvailable", "checkDaprRunning", "getDaprDashboardPID",
              "checkTemporalServerRunning"}

\* The kinds of command a log contains.
Kinds(log) ==
    (IF \E k \in 1..Len(log) : log[k].cmd \in KillCmds THEN {"kill"} ELSE {})
    \cup (IF \E k \in 1..Len(log) : log[k].cmd \in StartCmds THEN {"start"} ELSE {})
    \cup (IF \E k \in 1..Len(log) : log[k].cmd \in ProbeCmds THEN {"probe"} ELSE {})

\* Result of handling one component: the commands issued, the value left in
\* IsRunning and the branch that ended the handling.
Handled(log, running, branch) == [log |-> log, running |-> running, branch |-> branch]

(***************************************************************************)
(* Handling of the services: every way the loop body can run, as the set   *)
(* of its results.  A result of an external command or probe that the run  *)
(* cannot know beforehand is a free choice.                                *)
(***************************************************************************)

\* if comp.Name == "Dapr" { ... }
DaprRuns ==
    LET check == <<Cmd("checkDaprRunning", 0)>>
        init  == <<Cmd("dapr init", 0)>>
    IN  IF "Dapr" \in alive
        THEN {Handled(check, TRUE, "alreadyRunning")}
        ELSE {Handled(check \o init, FALSE, "startFailed"),
              Handled(check \o init \o check, TRUE, "started"),
              \* "Consider it running anyway"
              Handled(check \o init \o check, TRUE, "startedNotReady")}

\* Variant: a running dashboard is restarted whatever the snapshot says.
DashboardRestartRequiredAlways ==
    flags.forceRestart \/ "DaprDashboard" \in alive

\* restartRequired := forceRestart || (configChanged && dashboardPID != "" &&
\*                     (configCache.DaprDashboardPort != dashboardPort))
DashboardRestartRequired ==
    flags.forceRestart
    \/ (/\ configChanged
        /\ "DaprDashboard" \in alive
        /\ configCache.DaprDashboardPort # config.Dapr.DashboardPort)

\* Variant: the graceful stop is sent a second time before the port is probed.
DashboardStopLogsKillTwice(port) ==
    { <<Cmd("kill", 0), Cmd("kill", 0)>> \o Opt(killErr, <<Cmd("kill -9", 0)>>)
        \o <<Cmd("isPortInUse", port)>>
        \o Opt(stillInUse,
               <<Cmd("lsof", port)>> \o Opt(owners, <<Cmd("kill -9 owners", port)>>))
        \o <<Cmd("isPortInUse", port)>>
      : killErr \in BOOLEAN, stillInUse \in BOOLEAN, owners \in BOOLEAN }

\* Stopping the running dashboard, up to and including the final port probe.
DashboardStopLogs(port) ==
    { <<Cmd("kill", 0)>> \o Opt(killErr, <<Cmd("kill -9", 0)>>)
        \o <<Cmd("isPortInUse", port)>>
        \o Opt(stillInUse,
               <<Cmd("lsof", port)>> \o Opt(owners, <<Cmd("kill -9 owners", port)>>))
        \o <<Cmd("isPortInUse", port)>>
      : killErr \in BOOLEAN, stillInUse \in BOOLEAN, owners \in BOOLEAN }

\* "Check if the port is in use by something else", then tryStartDashboard.
DashboardStartRuns(port) ==
    {Handled(<<Cmd("isPortInUse", port)>>, FALSE, "portBusy"),
     Handled(<<Cmd("isPortInUse", port), Cmd("dapr dashboard", port)>>, TRUE, "started"),
     Handled(<<Cmd("isPortInUse", port), Cmd("dapr dashboard", port)>>, FALSE,
             "startFailed")}

\* if comp.Name == "DaprDashboard" { ... }
DashboardRuns ==
    LET port == config.Dapr.DashboardPort
        pid  == <<Cmd("getDaprDashboardPID", 0)>>
    IN  IF "DaprDashboard" \in alive
        THEN IF DashboardRestartRequired
             THEN {Handled(pid \o s, FALSE, "portStillBusy") : s \in DashboardStopLogs(port)}
                  \cup {Handled(pid \o s \o t.log, t.running, t.branch) :
                            s \in DashboardStopLogs(port), t \in DashboardStartRuns(port)}
             ELSE {Handled(pid, TRUE, "alreadyRunning")}
        ELSE {Handled(pid \o t.log, t.running, t.branch) : t \in DashboardStartRuns(port)}

\* Variant: a running Temporal is restarted on any detected drift.
TemporalRestartRequiredAnyDrift ==
    flags.forceRestart \/ configChanged

\* restartRequired := forceRestart || (configChanged &&
\*     (configCache.TemporalUIPort != temporalUIPort ||
\*      configCache.TemporalGRPCPort != temporalGRPCPort ||
\*      configCache.TemporalNamespace != temporalNamespace))
TemporalRestartRequired ==
    flags.forceRestart
    \/ (/\ configChanged
        /\ \/ configCache.TemporalUIPort # config.Temporal.UIPort
           \/ configCache.TemporalGRPCPort # config.Temporal.GRPCPort
           \/ configCache.TemporalNamespace # config.Temporal.Namespace)

\* "Find and kill the Temporal process", then "Also check for any processes
\* on the Temporal ports": `!found || isPortInUse(ui) || isPortInUse(grpc)`
\* evaluates left to right and stops at the first true operand.
TemporalStopLogs(ui, grpc) ==
    LET round == { <<Cmd("lsof", ui)>> \o Opt(uiOwners, <<Cmd("kill -9 owners", ui)>>)
                     \o <<Cmd("lsof", grpc)>>
                     \o Opt(grpcOwners, <<Cmd("kill -9 owners", grpc)>>)
                   : uiOwners \in BOOLEAN, grpcOwners \in BOOLEAN }
        ps    == <<Cmd("ps", 0)>>
    IN  {ps \o r : r \in round}
        \cup {ps \o <<Cmd("kill", 0), Cmd("isPortInUse", ui)>> \o r : r \in round}
        \cup {ps \o <<Cmd("kill", 0), Cmd("isPortInUse", ui), Cmd("isPortInUse", grpc)>> \o r
              : r \in round}
        \cup {ps \o <<Cmd("kill", 0), Cmd("isPortInUse", ui), Cmd("isPortInUse", grpc)>>}

\* The two port probes before the server is launched: the UI port, then, if
\* it is free, the gRPC port.
TemporalPortGate(ui, grpc) ==
    {[log |-> <<Cmd("isPortInUse", ui)>>, free |-> FALSE],
     [log |-> <<Cmd("isPortInUse", ui), Cmd("isPortInUse", grpc)>>, free |-> FALSE],
     [log |-> <<Cmd("isPortInUse", ui), Cmd("isPortInUse", grpc)>>, free |-> TRUE]}

\* Variant: the retry loop runs once more than `retries`.
HealthProbesOneMore(n) == [k \in 1..(n + 1) |-> Cmd("checkTemporalServerRunning", 0)]

\* n health probes
HealthProbes(n) == [k \in 1..n |-> Cmd("checkTemporalServerRunning", 0)]

\* Variant: a server that never answered the health probes is marked running.
TemporalLaunchRunsUnhealthyRunning ==
    LET ns      == config.Temporal.Namespace
        nsLogs  == IF configLoaded /\ config.Components.Temporal
                      /\ ns # "" /\ ns # "default"
                   THEN {<<Cmd("temporal operator namespace describe", 0)>>,
                         <<Cmd("temporal operator namespace describe", 0),
                           Cmd("temporal operator namespace create", 0)>>}
                   ELSE {<<>>}
        start   == <<Cmd("temporal server start-dev", 0)>>
    IN  {Handled(n \o start, FALSE, "startFailed") : n \in nsLogs}
        \cup {Handled(n \o start \o HealthProbes(k), TRUE, "started")
              : n \in nsLogs, k \in 1..TemporalRetries}
        \cup {Handled(n \o start \o HealthProbes(TemporalRetries), TRUE, "unhealthy")
              : n \in nsLogs}

\* From "Start Temporal server in background" to the end of the retry loop.
TemporalLaunchRuns ==
    LET ns      == config.Temporal.Namespace
        nsLogs  == IF configLoaded /\ config.Components.Temporal
                      /\ ns # "" /\ ns # "default"
                   THEN {<<Cmd("temporal operator namespace describe", 0)>>,
                         <<Cmd("temporal operator namespace describe", 0),
                           Cmd("temporal operator namespace create", 0)>>}
                   ELSE {<<>>}
        start   == <<Cmd("temporal server start-dev", 0)>>
    IN  {Handled(n \o start, FALSE, "startFailed") : n \in nsLogs}
        \cup {Handled(n \o start \o HealthProbes(k), TRUE, "started")
              : n \in nsLogs, k \in 1..TemporalRetries}
        \cup {Handled(n \o start \o HealthProbes(TemporalRetries), FALSE, "unhealthy")
              : n \in nsLogs}

\* if comp.Name == "Temporal" { ... }
TemporalRuns ==
    LET ui    == config.Temporal.UIPort
        grpc  == config.Temporal.GRPCPort
        probe == <<Cmd("checkTemporalServerRunning", 0)>>
        gated(prefixes, busyBranch) ==
            {Handled(p \o g.log, FALSE, busyBranch)
                : p \in prefixes, g \in {x \in TemporalPortGate(ui, grpc) : ~x.free}}
            \cup {Handled(p \o g.log \o t.log, t.running, t.branch)
                : p \in prefixes, g \in {x \in TemporalPortGate(ui, grpc) : x.free},
                  t \in TemporalLaunchRuns}
    IN  IF "Temporal" \in alive
        THEN IF TemporalRestartRequired
             THEN gated({probe \o s : s \in TemporalStopLogs(ui, grpc)}, "portStillBusy")
             ELSE {Handled(probe, TRUE, "alreadyRunning")}
        ELSE gated({probe}, "portBusy")

(***************************************************************************)
(* Initial states of a run                                                 *)
(***************************************************************************)

NoFlags ==
    [skipDapr |-> FALSE, skipTemporal |-> FALSE, skipDaprDashboard |-> FALSE,
     forceRestart |-> FALSE]

AllEnabled == [Dapr |-> TRUE, Temporal |-> TRUE, DaprDashboard |-> TRUE]

DefaultTemporal ==
    [Namespace |-> "default", UIPort |-> DefaultUIPort, GRPCPort |-> DefaultGRPCPort]

\* The tracked values `localenv init` writes, in a file that enables every
\* component.
DefaultConfig ==
    [Components |-> AllEnabled,
     Temporal   |-> DefaultTemporal,
     Dapr       |-> [DashboardPort |-> DefaultDashboardPort]]

\* Temporal settings of the runs explored: unset, the defaults, and the
\* defaults with one field given another value (0 included for the UI port).
TemporalSettings ==
    {ZeroConfig.Temporal, DefaultTemporal}
    \cup {[DefaultTemporal EXCEPT !.UIPort = p] : p \in UIPorts}
    \cup {[DefaultTemporal EXCEPT !.GRPCPort = p] : p \in GRPCPorts \ {0}}
    \cup {[DefaultTemporal EXCEPT !.Namespace = "testing"]}

TrackedConfigs ==
    {[Components |-> AllEnabled, Temporal |-> t, Dapr |-> [DashboardPort |-> d]]
        : t \in TemporalSettings, d \in DashboardPorts}

\* What saveConfigCache(newCache) left behind in a run on configuration cfg.
CacheOf(cfg) == hasConfigChanged(cfg, ZeroCache).newCache

\* The cache file is absent (zero) or was written by an earlier run.
PriorCaches == {ZeroCache} \cup {CacheOf(c) : c \in TrackedConfigs}

Loaded(cfg) == [loads |-> TRUE, config |-> cfg]
NotLoaded == [loads |-> FALSE, config |-> ZeroConfig]

\* Configuration against snapshot: everything installed and enabled, tools
\* and Dapr up, the two restartable services up or down.
DriftScenarios ==
    [cacheFile : PriorCaches,
     localenv  : {Loaded(c) : c \in TrackedConfigs},
     flags     : {NoFlags},
     installed : {Commands},
     alive     : {{"Podman", "Kind", "Dapr"} \cup s : s \in SUBSET {"DaprDashboard", "Temporal"}}]

\* --force-restart, with and without drift.
ForceScenarios ==
    [cacheFile : {ZeroCache, CacheOf(DefaultConfig)},
     localenv  : {Loaded(DefaultConfig),
                  Loaded([DefaultConfig EXCEPT !.Dapr.DashboardPort = DefaultDashboardPort + 1])},
     flags     : {[NoFlags EXCEPT !.forceRestart = TRUE]},
     installed : {Commands},
     alive     : {{"Podman", "Kind"} \cup s : s \in SUBSET Services}]

\* Which components are selected and installed: first run, every
\* combination of configuration presence, enabled flags, skip flags and
\* installed commands (`dapr dashboard --help` needs the dapr binary).
SelectionScenarios ==
    [cacheFile : {ZeroCache},
     localenv  : {NotLoaded}
                 \cup {Loaded([DefaultConfig EXCEPT !.Components = e])
                        : e \in [Dapr : BOOLEAN, Temporal : BOOLEAN, DaprDashboard : BOOLEAN]},
     flags     : [skipDapr : BOOLEAN, skipTemporal : BOOLEAN,
                  skipDaprDashboard : BOOLEAN, forceRestart : {FALSE}],
     installed : {s \in SUBSET Commands : "dapr dashboard" \in s => "dapr" \in s},
     alive     : {Names, {}}]

\* Which components are up: every subset, nothing else varied.
OutcomeScenarios ==
    [cacheFile : {ZeroCache, CacheOf(DefaultConfig)},
     localenv  : {Loaded(DefaultConfig)},
     flags     : {NoFlags},
     installed : {Commands},
     alive     : SUBSET Names]

Scenarios ==
    DriftScenarios \cup ForceScenarios \cup SelectionScenarios \cup OutcomeScenarios

\* The two containers of the OpenSearch components, none created.
ContainerOf == [OpenSearch |-> "opensearch-node", OpenSearchDashboard |-> "opensearch-dashboard"]

ContainerNames == {"opensearch-node", "opensearch-dashboard"}

NoContainers == [c \in ContainerNames |-> "absent"]

\* The fields of ConfigCache.
CacheFieldNames ==
    {"DaprDashboardPort", "TemporalUIPort", "TemporalGRPCPort", "TemporalNamespace"}

\* config-cache.yaml as loadConfigCache meets it: missing, unreadable, not
\* YAML at all ("syntaxError"), or a YAML mapping.  Of a mapping, `content`
\* holds the value of every key (the zero value for a key that is absent) and
\* `mistyped` the keys whose value does not fit the field's type.
NoFile == [kind |-> "missing", content |-> ZeroCache, mistyped |-> {}]

\* "Set default OpenSearch configuration"
DefaultOpenSearchPort == 9200

DefaultOpenSearchDashboardPort == 5601

\* What LocalEnvConfig holds about OpenSearch: Components.OpenSearch,
\* OpenSearch.Port and OpenSearch.DashboardPort; the zero value of each.
ZeroOpenSearch == [Enabled |-> FALSE, Port |-> 0, DashboardPort |-> 0]

\* localenv.yaml as the start run of src/unnamed/part_005 meets it: missing,
\* unreadable, rejected by yaml.Unmarshal ("syntaxError"), or a mapping whose
\* OpenSearch keys have the values of `openSearch` (zero for an absent key).
NoEnvFile == [kind |-> "missing", openSearch |-> ZeroOpenSearch]

NoCall ==
    [fn |-> "none", config |-> ZeroConfig, currentCache |-> ZeroCache,
     configLoaded |-> FALSE, configValue |-> FALSE, skipFlag |-> FALSE, file |-> NoFile,
     envFile |-> NoEnvFile, podmanAvailable |-> FALSE, writable |-> FALSE]

NoRet ==
    [hasChanges |-> FALSE, newCache |-> ZeroCache, changes |-> <<>>, value |-> FALSE,
     cache |-> ZeroCache, openSearch |-> ZeroOpenSearch, envFile |-> NoEnvFile]

\* The locals of Run before Run has assigned them.
LocalsUnset ==
    /\ config = ZeroConfig
    /\ configLoaded = FALSE
    /\ configCache = ZeroCache
    /\ configChanged = FALSE
    /\ newCache = ZeroCache
    /\ changes = <<>>
    /\ components = <<>>
    /\ allInstalled = TRUE
    /\ i = 0
    /\ exitCode = -1
    /\ cmds = <<>>
    /\ issued = [n \in Names |-> {}]
    /\ outcome = [n \in Names |-> "pending"]

\* The locals of stopCmd.Run before a stop run; no process, no log file.
StopUnset ==
    /\ procs = <<>>
    /\ logFile = FALSE
    /\ stopDapr = FALSE
    /\ stopTemporal = FALSE
    /\ stopDaprDashboard = FALSE
    /\ stoppedCount = 0
    /\ summary = "none"

NoChild == [state |-> "unstarted", exitedAt |-> -1, status |-> 0]
NoLauncher == [pc |-> "idle", err |-> "none"]
NoCaller == [pc |-> "idle", value |-> FALSE, returnedAt |-> -1]

\* No call of tryStartDashboardWithTimeout under way.
HelperUnset ==
    /\ timeout = 0
    /\ now = 0
    /\ dashboardCmd = NoChild
    /\ launcher = NoLauncher
    /\ resultChan = <<>>
    /\ caller = NoCaller

Init ==
    /\ \E s \in Scenarios :
          /\ cacheFile = s.cacheFile
          /\ localenv = s.localenv
          /\ flags = s.flags
          /\ installed = s.installed
          /\ alive = s.alive
    /\ containers = NoContainers
    /\ LocalsUnset
    /\ pc = "start"
    /\ call = NoCall
    /\ ret = NoRet
    /\ StopUnset
    /\ HelperUnset

(***************************************************************************)
(* startCmd.Run                                                            *)
(***************************************************************************)

\* func loadConfigCache() ConfigCache
loadConfigCache == cacheFile

\* Variant: only the all-zero snapshot counts as a first run.
IsFirstRunAllZero(cache) == cache = ZeroCache

\* "If this is a first run (no previous cache), initialize the config cache"
IsFirstRun(cache) == cache.DaprDashboardPort = 0 /\ cache.TemporalUIPort = 0

\* From the flag reads to the components literal.
StartRun ==
    /\ pc = "start"
    /\ LET cfg   == IF localenv.loads THEN localenv.config ELSE ZeroConfig
           cache == loadConfigCache
           drift == hasConfigChanged(cfg, cache)
           cfg1  == ApplySkipFlags(cfg, flags)
       IN  /\ configLoaded' = localenv.loads
           /\ configCache' = cache
           /\ configChanged' = drift.hasChanges
           /\ newCache' = drift.newCache
           /\ changes' = drift.changes
           /\ cacheFile' = IF IsFirstRun(cache) THEN drift.newCache ELSE cacheFile
           /\ config' = cfg1
           /\ components' = BuildComponents(localenv.loads, cfg1, flags, installed)
    /\ pc' = "checkInstalled"
    /\ UNCHANGED <<machineVars, stopVars, helperVars, allInstalled, i, exitCode, cmds, issued, outcome, pureVars>>

\* Variant: the install check lets a missing required command through.
AllRequiredInstalledUnchecked == TRUE

\* "First, check if required components are installed"
AllRequiredInstalled ==
    \A k \in 1..Len(components) :
        ~(components[k].IsRequired /\ ~components[k].CommandExists)

\* The install check and its os.Exit(1).
CheckInstalled ==
    /\ pc = "checkInstalled"
    /\ allInstalled' = AllRequiredInstalled
    /\ IF AllRequiredInstalled
       THEN pc' = "loop" /\ i' = 1 /\ exitCode' = exitCode
       ELSE pc' = "done" /\ i' = i /\ exitCode' = 1
    /\ UNCHANGED <<cacheFile, machineVars, stopVars, helperVars, config, configLoaded, driftVars,
                   components, cmds, issued, outcome, pureVars>>

\* Variant: `break` in place of `continue`.
ContinueBreaks(idx) == [pc |-> "aggregate", i |-> idx]

\* `continue`, and the end of the loop body: on to the next component, or
\* out of the loop after the last one.
Continue(idx) ==
    [pc |-> IF idx < Len(ComponentNames) THEN "loop" ELSE "aggregate", i |-> idx + 1]

\* Variant: the dependency check finds nothing missing.
HasMissingDepsNever(comp) == FALSE

\* "Check if any required components are missing"
HasMissingDeps(comp) ==
    \E dep \in comp.RequiredFor :
        \E k \in 1..Len(components) :
            components[k].Name = dep /\ ~components[k].CommandExists

InLoop == pc = "loop" /\ i \in 1..Len(components)

\* The end of one iteration that handled components[i] with result r.
EndIteration(r) ==
    /\ components' = [components EXCEPT ![i].IsRunning = r.running]
    /\ cmds' = r.log
    /\ issued' = [issued EXCEPT ![components[i].Name] = Kinds(r.log)]
    /\ outcome' = [outcome EXCEPT ![components[i].Name] = r.branch]
    /\ pc' = Continue(i).pc
    /\ i' = Continue(i).i
    /\ UNCHANGED <<cacheFile, machineVars, stopVars, helperVars, config, configLoaded, driftVars,
                   exitCode, pureVars>>

\* if !comp.IsRequired { continue }
SkipNotRequired ==
    /\ InLoop
    /\ ~components[i].IsRequired
    /\ EndIteration(Handled(<<>>, FALSE, "notRequired"))
    /\ UNCHANGED allInstalled

\* if missingDeps { continue }
SkipMissingDeps ==
    /\ InLoop
    /\ components[i].IsRequired
    /\ HasMissingDeps(components[i])
    /\ EndIteration(Handled(<<>>, FALSE, "missingDeps"))
    /\ UNCHANGED allInstalled

Ready == InLoop /\ components[i].IsRequired /\ ~HasMissingDeps(components[i])

\* if !comp.RequiresStartup { ... continue }
VerifyTool ==
    /\ Ready
    /\ ~components[i].RequiresStartup
    /\ LET ok == components[i].Name \in alive
       IN  /\ EndIteration(Handled(<<Cmd("VerifyAvailable", 0)>>, ok,
                                   IF ok THEN "verified" ELSE "unavailable"))
           /\ allInstalled' = (allInstalled /\ ok)

StartDapr ==
    /\ Ready
    /\ components[i].Name = "Dapr"
    /\ \E r \in DaprRuns : EndIteration(r)
    /\ UNCHANGED allInstalled

StartDaprDashboard ==
    /\ Ready
    /\ components[i].Name = "DaprDashboard"
    /\ \E r \in DashboardRuns : EndIteration(r)
    /\ UNCHANGED allInstalled

StartTemporal ==
    /\ Ready
    /\ components[i].Name = "Temporal"
    /\ \E r \in TemporalRuns : EndIteration(r)
    /\ UNCHANGED allInstalled

\* Variant: only the flag set in the loop decides.
AllRequiredRunningIgnored == TRUE

\* "Check if all components are running"
AllRequiredRunning ==
    \A k \in 1..Len(components) :
        components[k].IsRequired => components[k].IsRunning

\* The final check, os.Exit(1) or saveConfigCache(newCache).
Aggregate ==
    /\ pc = "aggregate"
    /\ allInstalled' = (allInstalled /\ AllRequiredRunning)
    /\ IF allInstalled /\ AllRequiredRunning
       THEN exitCode' = 0 /\ cacheFile' = newCache
       ELSE exitCode' = 1 /\ cacheFile' = cacheFile
    /\ pc' = "done"
    /\ cmds' = <<>>
    /\ UNCHANGED <<machineVars, stopVars, helperVars, config, configLoaded, driftVars, components, i,
                   issued, outcome, pureVars>>

Next ==
    \/ StartRun
    \/ CheckInstalled
    \/ SkipNotRequired
    \/ SkipMissingDeps
    \/ VerifyTool
    \/ StartDapr
    \/ StartDaprDashboard
    \/ StartTemporal
    \/ Aggregate

Spec == Init /\ [][Next]_vars

(***************************************************************************)
(* Single calls of the pure functions                                      *)
(***************************************************************************)

DriftCalls ==
    {[NoCall EXCEPT !.fn = "hasConfigChanged", !.config = c, !.currentCache = k]
        : c \in {x \in LocalEnvConfig : x.Components = AllEnabled}, k \in ConfigCache}

\* The comparison of a run that follows a run which saved its newCache: the
\* snapshot built by a first call is the currentCache of a second call on the
\* same configuration.
SnapshotCalls ==
    {[NoCall EXCEPT !.fn = "hasConfigChanged after saveConfigCache",
                    !.config = c, !.currentCache = k]
        : c \in {x \in LocalEnvConfig : x.Components = AllEnabled}, k \in ConfigCache}

RequirementFns ==
    {"getDaprRequirement", "getTemporalRequirement", "getDaprDashboardRequirement"}

\* The files loadConfigCache is called on.
CacheFiles ==
    {[NoFile EXCEPT !.kind = k] : k \in {"missing", "unreadable", "syntaxError"}}
    \cup {[kind |-> "mapping", content |-> c, mistyped |-> m]
            : c \in ConfigCache, m \in SUBSET CacheFieldNames}

LoadCalls == {[NoCall EXCEPT !.fn = "loadConfigCache", !.file = f] : f \in CacheFiles}

\* The OpenSearch settings a localenv.yaml can hold.
OpenSearchSettings ==
    [Enabled : BOOLEAN, Port : {0, DefaultOpenSearchPort},
     DashboardPort : {0, DefaultOpenSearchDashboardPort}]

LocalEnvFiles ==
    {[NoEnvFile EXCEPT !.kind = k] : k \in {"missing", "unreadable", "syntaxError"}}
    \cup {[kind |-> "mapping", openSearch |-> o] : o \in OpenSearchSettings}

\* The start of a run: the file at configPath, whether podman is in PATH,
\* whether the file can be written, and --skip-opensearch.
LoadConfigCalls ==
    {[NoCall EXCEPT !.fn = "loadConfig", !.envFile = f, !.podmanAvailable = p,
                    !.writable = w, !.skipFlag = s]
        : f \in LocalEnvFiles, p \in BOOLEAN, w \in BOOLEAN, s \in BOOLEAN}

RequirementCalls ==
    {[NoCall EXCEPT !.fn = f, !.configLoaded = l, !.configValue = v, !.skipFlag = s]
        : f \in RequirementFns, l \in BOOLEAN, v \in BOOLEAN, s \in BOOLEAN}

InitPure ==
    /\ cacheFile = ZeroCache
    /\ localenv = NotLoaded
    /\ flags = NoFlags
    /\ installed = Commands
    /\ alive = {}
    /\ containers = NoContainers
    /\ LocalsUnset
    /\ pc = "call"
    /\ call \in DriftCalls \cup SnapshotCalls \cup RequirementCalls \cup LoadCalls
                \cup LoadConfigCalls
    /\ ret = NoRet
    /\ StopUnset
    /\ HelperUnset

Return(r) ==
    /\ ret' = r
    /\ pc' = "returned"
    /\ UNCHANGED <<cacheFile, machineVars, stopVars, helperVars, config, configLoaded, driftVars, components,
                   allInstalled, i, exitCode, cmds, issued, outcome, call>>

CallHasConfigChanged ==
    /\ pc = "call"
    /\ call.fn = "hasConfigChanged"
    /\ LET r == hasConfigChanged(call.config, call.currentCache)
       IN  Return([NoRet EXCEPT !.hasChanges = r.hasChanges, !.newCache = r.newCache,
                                !.changes = r.changes])

CallHasConfigChangedOnSavedSnapshot ==
    /\ pc = "call"
    /\ call.fn = "hasConfigChanged after saveConfigCache"
    /\ LET saved == hasConfigChanged(call.config, call.currentCache).newCache
           r     == hasConfigChanged(call.config, saved)
       IN  Return([NoRet EXCEPT !.hasChanges = r.hasChanges, !.newCache = r.newCache,
                                !.changes = r.changes])

CallGetDaprRequirement ==
    /\ pc = "call"
    /\ call.fn = "getDaprRequirement"
    /\ Return([NoRet EXCEPT !.value =
                  getDaprRequirement(call.configLoaded, call.configValue, call.skipFlag)])

CallGetTemporalRequirement ==
    /\ pc = "call"
    /\ call.fn = "getTemporalRequirement"
    /\ Return([NoRet EXCEPT !.value =
                  getTemporalRequirement(call.configLoaded, call.configValue, call.skipFlag)])

CallGetDaprDashboardRequirement ==
    /\ pc = "call"
    /\ call.fn = "getDaprDashboardRequirement"
    /\ Return([NoRet EXCEPT !.value =
                  getDaprDashboardRequirement(call.configLoaded, call.configValue,
                                              call.skipFlag)])

\* yaml.Unmarshal(data, &cache): a document that is not YAML leaves cache
\* alone; in a mapping every key whose value fits is stored, a value that
\* does not fit leaves its field alone, and the error names the misfits.
Unmarshal(file, cache) ==
    IF file.kind = "syntaxError"
    THEN [err |-> TRUE, cache |-> cache]
    ELSE [err   |-> file.mistyped # {},
          cache |-> [f \in CacheFieldNames |->
                        IF f \in file.mistyped THEN cache[f] ELSE file.content[f]]]

\* func loadConfigCache() ConfigCache, on the file it finds: the error of
\* yaml.Unmarshal is dropped.
loadConfigCacheFrom(file) ==
    IF file.kind = "missing" THEN ZeroCache
    ELSE IF file.kind = "unreadable" THEN ZeroCache
    ELSE Unmarshal(file, ZeroCache).cache

CallLoadConfigCache ==
    /\ pc = "call"
    /\ call.fn = "loadConfigCache"
    /\ Return([NoRet EXCEPT !.cache = loadConfigCacheFrom(call.file)])

\* "Load configuration if available": the file is read and parsed and, when
\* it loads without OpenSearch ports and podman is available, OpenSearch is
\* enabled with the default ports and the file is written back.
loadConfig(file, podmanAvailable, writable) ==
    IF file.kind # "mapping"
    THEN [configLoaded |-> FALSE, openSearch |-> ZeroOpenSearch, envFile |-> file]
    ELSE LET openSearchMissing ==
                 file.openSearch.Port = 0 /\ file.openSearch.DashboardPort = 0
             updated == [Enabled       |-> TRUE,
                         Port          |-> DefaultOpenSearchPort,
                         DashboardPort |-> DefaultOpenSearchDashboardPort]
         IN  IF openSearchMissing /\ podmanAvailable
             THEN [configLoaded |-> TRUE, openSearch |-> updated,
                   envFile |-> IF writable THEN [file EXCEPT !.openSearch = updated]
                               ELSE file]
             ELSE [configLoaded |-> TRUE, openSearch |-> file.openSearch, envFile |-> file]

\* if skipOpenSearch { config.Components.OpenSearch = false }
SkipOpenSearchOverride(openSearch, skipOpenSearch) ==
    IF skipOpenSearch THEN [openSearch EXCEPT !.Enabled = FALSE] ELSE openSearch

\* The configuration the run goes on with, and the file it leaves.
CallLoadConfig ==
    /\ pc = "call"
    /\ call.fn = "loadConfig"
    /\ LET r == loadConfig(call.envFile, call.podmanAvailable, call.writable)
       IN  Return([NoRet EXCEPT
                     !.value = r.configLoaded,
                     !.openSearch = SkipOpenSearchOverride(r.openSearch, call.skipFlag),
                     !.envFile = r.envFile])

NextPure ==
    \/ CallLoadConfig
    \/ CallLoadConfigCache
    \/ CallHasConfigChanged
    \/ CallHasConfigChangedOnSavedSnapshot
    \/ CallGetDaprRequirement
    \/ CallGetTemporalRequirement
    \/ CallGetDaprDashboardRequirement

SpecPure == InitPure /\ [][NextPure]_vars

(***************************************************************************)
(* The OpenSearch components of startCmd.Run in src/unnamed/part_005: the   *)
(* last two iterations of its component loop.                              *)
(***************************************************************************)

\* for i := 0; i < 5; i++ { podman ps ... } (src/unnamed/part_005:1146, 1296)
ContainerPolls == 5

\* maxRetries := 10 (src/unnamed/part_005:1178)
OpenSearchRetries == 10

\* maxRetries := 12 (src/unnamed/part_005:1330)
OpenSearchDashboardRetries == 12

OpenSearchNames == <<"OpenSearch", "OpenSearchDashboard">>

\* The components literal of src/unnamed/part_005, in order.
StartOrder == ComponentNames \o OpenSearchNames

\* The two entries of the components literal; both take IsRequired from the
\* same getOpenSearchRequirement(...) call and CommandExists from podman.
OpenSearchComponents(required) ==
    [k \in 1..Len(OpenSearchNames) |->
        [Name            |-> OpenSearchNames[k],
         RequiredFor     |-> IF k = 1 THEN {"OpenSearchDashboard"} ELSE {},
         IsRequired      |-> required,
         CommandExists   |-> TRUE,
         IsRunning       |-> FALSE,
         RequiresStartup |-> TRUE,
         IsBinary        |-> FALSE]]

RemoveCmds == {"podman rm -f"}
RunCmds == {"podman run"}

\* The kinds of podman command a log contains.
ContainerKinds(log) ==
    (IF \E k \in 1..Len(log) : log[k].cmd \in RemoveCmds THEN {"remove"} ELSE {})
    \cup (IF \E k \in 1..Len(log) : log[k].cmd \in RunCmds THEN {"start"} ELSE {})
    \cup (IF \E k \in 1..Len(log) : log[k].cmd = "podman ps" THEN {"probe"} ELSE {})

Repeat(n, c) == [k \in 1..n |-> c]

\* Result of handling a container component: as Handled, with the state the
\* container is left in.
HandledContainer(log, running, branch, state) ==
    [log |-> log, running |-> running, branch |-> branch, state |-> state]

\* From "Check if a container with the same name already exists and remove
\* it" to the end of the iteration, for container c after the commands of
\* prefix: `podman rm -f` when the container exists, `podman run`, up to
\* ContainerPolls polls of `podman ps`, up to `retries` HTTP probes.  With
\* lenient set the component is marked running although no probe answered.
ContainerRuns(prefix, c, retries, lenient) ==
    LET exists  == containers[c] # "absent"
        listed  == prefix \o <<Cmd("podman ps -a", 0)>>
        removed == listed \o Opt(exists, <<Cmd("podman rm -f", 0)>>)
        ran     == removed \o <<Cmd("podman run", 0)>>
        poll    == Cmd("podman ps", 0)
        get     == Cmd("http GET", 0)
    IN  (IF exists
         THEN {HandledContainer(removed, FALSE, "removeFailed", containers[c])}
         ELSE {})
        \cup {HandledContainer(ran, FALSE, "startFailed", st) : st \in {"absent", "exited"}}
        \cup {HandledContainer(ran \o Repeat(ContainerPolls, poll), FALSE,
                               "containerNotRunning", "exited")}
        \cup {HandledContainer(ran \o Repeat(k, poll) \o Repeat(h, get), TRUE,
                               "started", "running")
              : k \in 1..ContainerPolls, h \in 1..retries}
        \cup {HandledContainer(ran \o Repeat(k, poll) \o Repeat(retries, get), lenient,
                               IF lenient THEN "startedNotReady" ELSE "unhealthy",
                               "running")
              : k \in 1..ContainerPolls}

\* if comp.Name == "OpenSearch" { ... }
OpenSearchRuns ==
    ContainerRuns(<<Cmd("podman network create", 0)>>, "opensearch-node",
                  OpenSearchRetries, FALSE)

\* if comp.Name == "OpenSearchDashboard" { ... }
OpenSearchDashboardRuns ==
    LET node == <<Cmd("podman ps", 0)>>
    IN  IF containers["opensearch-node"] # "running"
        THEN {HandledContainer(node, FALSE, "dependencyNotRunning",
                               containers["opensearch-dashboard"])}
        ELSE ContainerRuns(node, "opensearch-dashboard",
                           OpenSearchDashboardRetries, TRUE)

\* The state when the loop reaches the OpenSearch entry: flags and drift of
\* the run, the containers left by earlier runs.
InitOpenSearch ==
    /\ cacheFile = ZeroCache
    /\ localenv = Loaded(DefaultConfig)
    /\ flags \in {NoFlags, [NoFlags EXCEPT !.forceRestart = TRUE]}
    /\ installed = Commands
    /\ containers \in [ContainerNames -> {"absent", "exited", "running"}]
    /\ alive = {n \in {"OpenSearch", "OpenSearchDashboard"} :
                    containers[ContainerOf[n]] = "running"}
    /\ config = DefaultConfig
    /\ configLoaded = TRUE
    /\ configCache = ZeroCache
    /\ configChanged \in BOOLEAN
    /\ newCache = CacheOf(DefaultConfig)
    /\ changes = <<>>
    /\ \E required \in BOOLEAN : components = OpenSearchComponents(required)
    /\ allInstalled = TRUE
    /\ i = 1
    /\ pc = "loop"
    /\ exitCode = -1
    /\ cmds = <<>>
    /\ issued = [n \in {"OpenSearch", "OpenSearchDashboard"} |-> {}]
    /\ outcome = [n \in {"OpenSearch", "OpenSearchDashboard"} |-> "pending"]
    /\ call = NoCall
    /\ ret = NoRet
    /\ StopUnset
    /\ HelperUnset

\* The end of the iteration that handled components[i] with result r.
EndContainerIteration(r) ==
    /\ components' = [components EXCEPT ![i].IsRunning = r.running]
    /\ containers' = [containers EXCEPT ![ContainerOf[components[i].Name]] = r.state]
    /\ cmds' = r.log
    /\ issued' = [issued EXCEPT ![components[i].Name] = ContainerKinds(r.log)]
    /\ outcome' = [outcome EXCEPT ![components[i].Name] = r.branch]
    /\ pc' = IF i < Len(OpenSearchNames) THEN "loop" ELSE "aggregate"
    /\ i' = i + 1
    /\ UNCHANGED <<cacheFile, localenv, flags, installed, alive, config, configLoaded,
                   driftVars, allInstalled, exitCode, pureVars, stopVars, helperVars>>

\* if !comp.IsRequired { continue }
SkipOpenSearchNotRequired ==
    /\ InLoop
    /\ ~components[i].IsRequired
    /\ EndContainerIteration(HandledContainer(<<>>, FALSE, "notRequired",
                                              containers[ContainerOf[components[i].Name]]))

StartOpenSearch ==
    /\ InLoop
    /\ components[i].IsRequired
    /\ components[i].Name = "OpenSearch"
    /\ \E r \in OpenSearchRuns : EndContainerIteration(r)

StartOpenSearchDashboard ==
    /\ InLoop
    /\ components[i].IsRequired
    /\ components[i].Name = "OpenSearchDashboard"
    /\ \E r \in OpenSearchDashboardRuns : EndContainerIteration(r)

NextOpenSearch ==
    \/ SkipOpenSearchNotRequired
    \/ StartOpenSearch
    \/ StartOpenSearchDashboard

SpecOpenSearch == InitOpenSearch /\ [][NextOpenSearch]_vars

(***************************************************************************)
(* One call of tryStartDashboardWithTimeout (src/cmd/localenv_helpers.go):  *)
(* the caller, the goroutine it launches, the child process and the clock. *)
(***************************************************************************)

\* The longest wait window explored, in clock ticks.
MaxWindow == 3

\* The clock runs one tick past the longest window.
MaxTime == MaxWindow + 1

\* The state at the call: the window is the argument, the clock starts at 0.
InitDashboardStart ==
    /\ cacheFile = ZeroCache
    /\ localenv = NotLoaded
    /\ flags = NoFlags
    /\ installed = Commands
    /\ alive = {}
    /\ containers = NoContainers
    /\ LocalsUnset
    /\ pc = "tryStartDashboardWithTimeout"
    /\ call = NoCall
    /\ ret = NoRet
    /\ StopUnset
    /\ timeout \in 1..MaxWindow
    /\ now = 0
    /\ dashboardCmd = NoChild
    /\ launcher = NoLauncher
    /\ resultChan = <<>>
    /\ caller = [NoCaller EXCEPT !.pc = "go"]

\* Everything but the variables of the call.
restOfState ==
    <<cacheFile, machineVars, config, configLoaded, driftVars, components, allInstalled, i,
      pc, exitCode, cmds, issued, outcome, pureVars, stopVars>>

\* resultChan := make(chan error, 1); go func() { ... }()
Go ==
    /\ caller.pc = "go"
    /\ resultChan' = <<>>
    /\ launcher' = [launcher EXCEPT !.pc = "run"]
    /\ caller' = [caller EXCEPT !.pc = "sleep"]
    /\ UNCHANGED <<restOfState, timeout, now, dashboardCmd>>

\* Variant: the wait ends as soon as a result is in the channel.
SleepOverOrResult == now >= timeout \/ resultChan # <<>>

\* time.Sleep(timeout) has returned: the call began at tick 0.
SleepOver == now >= timeout

\* time.Sleep(timeout)
Sleep ==
    /\ caller.pc = "sleep"
    /\ SleepOver
    /\ caller' = [caller EXCEPT !.pc = "select"]
    /\ UNCHANGED <<restOfState, timeout, now, dashboardCmd, launcher, resultChan>>

\* select { case err := <-resultChan: return false; default: return true }
Select ==
    /\ caller.pc = "select"
    /\ IF resultChan # <<>>
       THEN /\ resultChan' = Tail(resultChan)
            /\ caller' = [pc |-> "returned", value |-> FALSE, returnedAt |-> now]
       ELSE /\ resultChan' = resultChan
            /\ caller' = [pc |-> "returned", value |-> TRUE, returnedAt |-> now]
    /\ UNCHANGED <<restOfState, timeout, now, dashboardCmd, launcher>>

\* dashboardCmd.Run() starts the child, or fails to (the command cannot be
\* launched) and returns the error at once.
LauncherRun ==
    /\ launcher.pc = "run"
    /\ \/ /\ dashboardCmd' = [dashboardCmd EXCEPT !.state = "running"]
          /\ launcher' = [launcher EXCEPT !.pc = "wait"]
       \/ /\ dashboardCmd' = [state |-> "spawnFailed", exitedAt |-> now, status |-> 1]
          /\ launcher' = [pc |-> "send", err |-> "error"]
    /\ UNCHANGED <<restOfState, timeout, now, resultChan, caller>>

\* The child process exits, with status 0 or not.
ChildExit ==
    /\ dashboardCmd.state = "running"
    /\ \E status \in {0, 1} :
          dashboardCmd' = [state |-> "exited", exitedAt |-> now, status |-> status]
    /\ UNCHANGED <<restOfState, timeout, now, launcher, resultChan, caller>>

\* dashboardCmd.Run() returns once the child has exited: nil for status 0.
LauncherReap ==
    /\ launcher.pc = "wait"
    /\ dashboardCmd.state = "exited"
    /\ launcher' = [pc |-> "send",
                    err |-> IF dashboardCmd.status = 0 THEN "nil" ELSE "error"]
    /\ UNCHANGED <<restOfState, timeout, now, dashboardCmd, resultChan, caller>>

\* Variant: make(chan error), a channel without buffer.
ChanCapUnbuffered == Len(<<>>)

\* resultChan := make(chan error, 1)
ChanCap == 1

\* resultChan <- (the value Run returned): the send completes when the
\* buffer has room.
LauncherSend ==
    /\ launcher.pc = "send"
    /\ Len(resultChan) < ChanCap
    /\ resultChan' = Append(resultChan, launcher.err)
    /\ launcher' = [launcher EXCEPT !.pc = "done"]
    /\ UNCHANGED <<restOfState, timeout, now, dashboardCmd, caller>>

\* Time passes.
Tick ==
    /\ now < MaxTime
    /\ now' = now + 1
    /\ UNCHANGED <<restOfState, timeout, dashboardCmd, launcher, resultChan, caller>>

NextDashboardStart ==
    \/ Go
    \/ Sleep
    \/ Select
    \/ LauncherRun
    \/ ChildExit
    \/ LauncherReap
    \/ LauncherSend
    \/ Tick

SpecDashboardStart == InitDashboardStart /\ [][NextDashboardStart]_vars

\* The Go scheduler runs a goroutine that can run: the launcher is not
\* starved once dashboardCmd.Run() can return or the send can complete.
SpecDashboardStartFair ==
    /\ SpecDashboardStart
    /\ WF_vars(LauncherReap)
    /\ WF_vars(LauncherSend)

(***************************************************************************)
(* stopCmd.Run (src/cmd/localenv_stop.go): one run of `localenv stop`.      *)
(* The variables localenv, flags, installed, containers, config,           *)
(* configLoaded, pc, exitCode, cmds, issued and outcome play for the stop  *)
(* run the part they play for the start run.                               *)
(***************************************************************************)

\* The components in the order the run handles them.
StopNames == <<"DaprDashboard", "Temporal", "Dapr", "OpenSearchDashboard", "OpenSearch">>

StopComponents == {StopNames[k] : k \in 1..Len(StopNames)}

\* cmd.Flags() of the stop command, nothing given.
NoStopFlags ==
    [skipDapr |-> FALSE, skipTemporal |-> FALSE, skipDaprDashboard |-> FALSE,
     skipOpenSearch |-> FALSE, force |-> FALSE, cleanLogs |-> FALSE]

\* The fields of LocalEnvConfig the stop run reads (the Temporal ports only
\* name the ports it looks at: see Listens).
StopConfig(dapr, dashboard, dashboardPort, temporal, openSearch) ==
    [Components |->
        [Dapr       |-> [Enabled |-> dapr, Dashboard |-> dashboard,
                         DashboardPort |-> dashboardPort],
         Temporal   |-> [Enabled |-> temporal],
         OpenSearch |-> [Enabled |-> openSearch]]]

\* config := LocalEnvConfig{}
ZeroStopConfig == StopConfig(FALSE, FALSE, 0, FALSE, FALSE)

\* What `localenv init` writes when every component is kept.
DefaultStopConfig == StopConfig(TRUE, TRUE, DefaultDashboardPort, TRUE, TRUE)

\* The processes a stop run can come across: the dashboard, another process
\* listening on the dashboard port, the Temporal server, and other owners of
\* the Temporal UI port and of the gRPC port.
ProcOrder == <<"dashboard", "listener", "temporal", "uiOwner", "grpcOwner">>

ProcIds == {ProcOrder[k] : k \in 1..Len(ProcOrder)}

\* What pgrep -f and ps -ef match.
Cmdline ==
    [dashboard |-> "dapr dashboard", listener |-> "other",
     temporal |-> "temporal server start-dev", uiOwner |-> "other", grpcOwner |-> "other"]

\* The ports lsof reports a process on: "dashboard" is the configured
\* dashboard port, "ui" and "grpc" the Temporal ports the run settled on.
Listens ==
    [dashboard |-> {"dashboard"}, listener |-> {"dashboard"},
     temporal |-> {"ui", "grpc"}, uiOwner |-> {"ui"}, grpcOwner |-> {"grpc"}]

\* How a live process answers the signals: "dies" on SIGTERM; "survives"
\* SIGTERM although `kill` succeeded; "forced": `kill` fails and `kill -9`
\* succeeds; "denied": both fail.
Behaviours == {"dies", "survives", "forced", "denied"}

NoProcs == [p \in ProcIds |-> "absent"]

Living(ps) == {p \in ProcIds : ps[p] \in Behaviours}

\* isPortInUse(port): lsof finds a listener.
isPortInUse(ps, port) == \E p \in Living(ps) : port \in Listens[p]

\* Variant: the forceful signal is sent whether or not --force was given.
KillAlwaysEscalates(p, b, force) ==
    LET termErr == b \in {"forced", "denied"}
    IN  [log   |-> <<Cmd("kill", p)>> \o Opt(termErr, <<Cmd("kill -9", p)>>),
         err   |-> IF termErr THEN b = "denied" ELSE termErr,
         after |-> IF b = "dies" \/ (termErr /\ b = "forced") THEN "dead" ELSE b]

\* killCmd := exec.Command("kill", pid); killErr := killCmd.Run()
\* if killErr != nil && force { exec.Command("kill", "-9", pid) ... }
\* for process p of behaviour b: the commands, the final killErr != nil and
\* what becomes of the process.
Kill(p, b, force) ==
    LET termErr  == b \in {"forced", "denied"}
        escalate == termErr /\ force
    IN  [log   |-> <<Cmd("kill", p)>> \o Opt(escalate, <<Cmd("kill -9", p)>>),
         err   |-> IF escalate THEN b = "denied" ELSE termErr,
         after |-> IF b = "dies" \/ (escalate /\ b = "forced") THEN "dead" ELSE b]

\* The pids of a lookup in the order of its output.
RECURSIVE PidsIn(_, _)
PidsIn(order, pids) ==
    IF order = <<>> THEN <<>>
    ELSE Opt(Head(order) \in pids, <<Head(order)>>) \o PidsIn(Tail(order), pids)

\* for _, pid := range pids { ... }: the commands of the loop.
RECURSIVE KillLog(_, _, _)
KillLog(pids, ps, force) ==
    IF pids = <<>> THEN <<>>
    ELSE Kill(Head(pids), ps[Head(pids)], force).log \o KillLog(Tail(pids), ps, force)

\* for _, pid := range pids { ... }: log, the pids whose killErr stayed
\* non-nil, and the processes afterwards.
KillEach(pids, ps, force) ==
    [log    |-> KillLog(PidsIn(ProcOrder, pids), ps, force),
     failed |-> {p \in pids : Kill(p, ps[p], force).err},
     after  |-> [p \in ProcIds |-> IF p \in pids THEN Kill(p, ps[p], force).after
                                   ELSE ps[p]]]

SignalCmds == {"kill", "kill -9"}
LookupCmds == {"pgrep", "ps -ef", "lsof", "dapr list", "podman ps"}

\* The kinds of command a log of the stop run contains.
StopKinds(log) ==
    (IF \E k \in 1..Len(log) : log[k].cmd \in SignalCmds THEN {"kill"} ELSE {})
    \cup (IF \E k \in 1..Len(log) : log[k].cmd = "kill -9" THEN {"force"} ELSE {})
    \cup (IF \E k \in 1..Len(log) : log[k].cmd \in LookupCmds THEN {"lookup"} ELSE {})
    \cup (IF \E k \in 1..Len(log) : log[k].cmd \in RemoveCmds THEN {"remove"} ELSE {})
    \cup (IF \E k \in 1..Len(log) : log[k].cmd = "dapr uninstall" THEN {"uninstall"} ELSE {})
    \cup (IF \E k \in 1..Len(log) : log[k].cmd = "isPortInUse" THEN {"probe"} ELSE {})
    \cup (IF \E k \in 1..Len(log) : log[k].cmd = "os.Remove" THEN {"clean"} ELSE {})

\* Variant: the run begins with the Dapr block.
FirstBlockDapr == "Dapr"

\* The block that follows `stoppedCount := 0`.
FirstBlock == "DaprDashboard"

\* From the flag reads to `stoppedCount := 0`.
StopRun ==
    /\ pc = "start"
    /\ LET cfg == IF localenv.loads THEN localenv.config ELSE ZeroStopConfig
       IN  /\ configLoaded' = localenv.loads
           /\ config' = cfg
           /\ stopDapr' = (~flags.skipDapr
                            /\ (localenv.loads => cfg.Components.Dapr.Enabled))
           /\ stopTemporal' = (~flags.skipTemporal
                                /\ (localenv.loads => cfg.Components.Temporal.Enabled))
           /\ stopDaprDashboard' = (~flags.skipDaprDashboard
                                     /\ (localenv.loads => cfg.Components.Dapr.Dashboard))
    /\ stoppedCount' = 0
    /\ pc' = FirstBlock
    /\ UNCHANGED <<cacheFile, machineVars, driftVars, components, allInstalled, i, exitCode,
                   cmds, issued, outcome, pureVars, procs, logFile, summary, helperVars>>

\* The end of the block of component `name`: its commands, the branch that
\* ended it and where the run goes next; the run ends with status 0.
EndBlock(name, log, branch, next) ==
    /\ cmds' = log
    /\ issued' = [issued EXCEPT ![name] = StopKinds(log)]
    /\ outcome' = [outcome EXCEPT ![name] = branch]
    /\ pc' = next
    /\ exitCode' = IF next = "done" THEN 0 ELSE exitCode
    /\ UNCHANGED <<cacheFile, localenv, flags, installed, alive, config, configLoaded,
                   driftVars, components, allInstalled, i, pureVars, stopDapr, stopTemporal,
                   stopDaprDashboard, helperVars>>

\* "Stop Dapr Dashboard by finding and killing its process"
DashboardBlock ==
    /\ pc = "DaprDashboard"
    /\ IF stopDaprDashboard /\ "dapr" \in installed /\ "dapr dashboard" \in installed
       THEN LET byPort  == configLoaded /\ config.Components.Dapr.DashboardPort > 0
                dashboardPids ==
                    {p \in Living(procs) : Cmdline[p] = "dapr dashboard"}
                    \cup (IF byPort
                          THEN {p \in Living(procs) : "dashboard" \in Listens[p]}
                          ELSE {})
                lookups == <<Cmd("pgrep", "dapr dashboard"), Cmd("ps -ef", "dapr dashboard")>>
                           \o Opt(byPort, <<Cmd("lsof", "dashboard")>>)
                k == KillEach(dashboardPids, procs, flags.force)
                allKilled == k.failed = {}
            IN  IF dashboardPids # {}
                THEN /\ procs' = k.after
                     /\ stoppedCount' = IF allKilled THEN stoppedCount + 1 ELSE stoppedCount
                     /\ EndBlock("DaprDashboard", lookups \o k.log,
                                 IF allKilled THEN "stopped" ELSE "failed",
                                 "Temporal")
                ELSE /\ UNCHANGED <<procs, stoppedCount>>
                     /\ EndBlock("DaprDashboard", lookups, "notFound", "Temporal")
       ELSE /\ UNCHANGED <<procs, stoppedCount>>
            /\ EndBlock("DaprDashboard", <<>>,
                        IF stopDaprDashboard THEN "unavailable" ELSE "notSelected",
                        "Temporal")
    /\ UNCHANGED <<logFile, summary, containers>>

\* if temporalStopped { ... }: the flag as the kill loops left it; the two
\* port probes only print.
TemporalStopped(killed, uiPortInUse, grpcPortInUse) == killed

\* Variant: the log file is removed whether or not --clean-logs was given.
CleansLogsAlways(exists, cleanLogs) == exists

\* if _, err := os.Stat(logFilePath); err == nil { if cleanLogs { os.Remove
CleansLogs(exists, cleanLogs) == exists /\ cleanLogs

\* "Stop Temporal server by finding and killing its process"
TemporalBlock ==
    /\ pc = "Temporal"
    /\ IF stopTemporal /\ "temporal" \in installed
       THEN LET force  == flags.force
                byName == {p \in Living(procs) : Cmdline[p] = "temporal server start-dev"}
                k1     == KillEach(byName, procs, force)
                onUI   == {p \in Living(k1.after) : "ui" \in Listens[p]}
                k2     == KillEach(onUI, k1.after, force)
                onGRPC == {p \in Living(k2.after) : "grpc" \in Listens[p]}
                k3     == KillEach(onGRPC, k2.after, force)
                killed == \/ (byName # {} /\ k1.failed = {})
                          \/ onUI \ k2.failed # {}
                          \/ onGRPC \ k3.failed # {}
                temporalStopped ==
                    TemporalStopped(killed, isPortInUse(k3.after, "ui"),
                                    isPortInUse(k3.after, "grpc"))
                log == <<Cmd("pgrep", "temporal server start-dev")>> \o k1.log
                       \o <<Cmd("lsof", "ui")>> \o k2.log
                       \o <<Cmd("lsof", "grpc")>> \o k3.log
                       \o <<Cmd("isPortInUse", "ui"), Cmd("isPortInUse", "grpc")>>
            IN  /\ procs' = k3.after
                /\ IF temporalStopped
                   THEN /\ stoppedCount' = stoppedCount + 1
                        /\ IF CleansLogs(logFile, flags.cleanLogs)
                           THEN /\ \E removed \in BOOLEAN : logFile' = ~removed
                                /\ EndBlock("Temporal",
                                            log \o <<Cmd("os.Remove", "temporal-server.log")>>,
                                            "stopped", "Dapr")
                           ELSE /\ logFile' = logFile
                                /\ EndBlock("Temporal", log, "stopped", "Dapr")
                   ELSE /\ UNCHANGED <<stoppedCount, logFile>>
                        /\ EndBlock("Temporal", log, "failed", "Dapr")
       ELSE /\ UNCHANGED <<procs, stoppedCount, logFile>>
            /\ EndBlock("Temporal", <<>>,
                        IF stopTemporal THEN "unavailable" ELSE "notSelected", "Dapr")
    /\ UNCHANGED <<summary, containers>>

\* The outcomes of `dapr uninstall --all --container-runtime podman`: no
\* error, an error whose output has "Error removing Dapr" and "docker", any
\* other error.
UninstallResults == {"ok", "dockerError", "error"}

\* Variant: a failed uninstall ends the run even under --force.
DaprFailureHaltsAlways(force) == TRUE

\* if !force { ...; return }
DaprFailureHalts(force) == ~force

\* "Stop Dapr runtime"
DaprBlock ==
    /\ pc = "Dapr"
    /\ IF stopDapr /\ "dapr" \in installed
       THEN \E result \in UninstallResults :
              LET success == result = "ok"
                             \/ (result = "dockerError" /\ "podman" \in installed)
                  log == <<Cmd("dapr list", ""), Cmd("dapr uninstall", "--all")>>
              IN  IF success
                  THEN /\ stoppedCount' = stoppedCount + 1
                       /\ summary' = summary
                       /\ EndBlock("Dapr", log, "stopped", "OpenSearchDashboard")
                  ELSE /\ stoppedCount' = stoppedCount
                       /\ IF DaprFailureHalts(flags.force)
                          THEN /\ summary' = IF stoppedCount = 0
                                             THEN "No components were stopped successfully."
                                             ELSE "Some components were not stopped properly."
                               /\ EndBlock("Dapr", log, "failed", "done")
                          ELSE /\ summary' = summary
                               /\ EndBlock("Dapr", log, "failed", "OpenSearchDashboard")
       ELSE /\ UNCHANGED <<stoppedCount, summary>>
            /\ EndBlock("Dapr", <<>>, IF stopDapr THEN "unavailable" ELSE "notSelected",
                        "OpenSearchDashboard")
    /\ UNCHANGED <<procs, logFile, containers>>

\* if !skipOpenSearch && (!configLoaded || config.Components.OpenSearch.Enabled)
stopOpenSearch ==
    ~flags.skipOpenSearch /\ (configLoaded => config.Components.OpenSearch.Enabled)

\* The first half of "Stop OpenSearch if enabled": `podman rm -f
\* opensearch-dashboard`, which removes the container or fails.
OpenSearchDashboardBlock ==
    /\ pc = "OpenSearchDashboard"
    /\ IF stopOpenSearch
       THEN \E err \in BOOLEAN :
              /\ "podman" \notin installed => err
              /\ containers' = IF err THEN containers
                               ELSE [containers EXCEPT !["opensearch-dashboard"] = "absent"]
              /\ EndBlock("OpenSearchDashboard", <<Cmd("podman rm -f", "opensearch-dashboard")>>,
                          IF err THEN "failed" ELSE "stopped", "OpenSearch")
       ELSE /\ containers' = containers
            /\ EndBlock("OpenSearchDashboard", <<>>, "notSelected", "OpenSearch")
    /\ UNCHANGED <<procs, logFile, stoppedCount, summary>>

\* The second half: `podman ps --filter name=opensearch-node`, then
\* `podman rm -f opensearch-node` when the container is listed.
OpenSearchBlock ==
    /\ pc = "OpenSearch"
    /\ IF stopOpenSearch
       THEN LET listed == "podman" \in installed /\ containers["opensearch-node"] = "running"
                check  == <<Cmd("podman ps", "opensearch-node")>>
                remove == check \o <<Cmd("podman rm -f", "opensearch-node")>>
            IN  IF listed
                THEN \E err \in BOOLEAN :
                       /\ containers' = IF err THEN containers
                                        ELSE [containers EXCEPT !["opensearch-node"] = "absent"]
                       /\ EndBlock("OpenSearch", remove, IF err THEN "failed" ELSE "stopped",
                                   IF err /\ ~flags.force THEN "done" ELSE "summary")
                ELSE /\ containers' = containers
                     /\ EndBlock("OpenSearch", check, "notRunning", "summary")
       ELSE /\ containers' = containers
            /\ EndBlock("OpenSearch", <<>>, "notSelected", "summary")
    /\ UNCHANGED <<procs, logFile, stoppedCount, summary>>

\* if stoppedCount > 0 { ... } else { ... }; the run returns.
Summary ==
    /\ pc = "summary"
    /\ summary' = IF stoppedCount > 0
                  THEN "Local development environment has been stopped."
                  ELSE "No components were stopped."
    /\ pc' = "done"
    /\ exitCode' = 0
    /\ UNCHANGED <<cacheFile, machineVars, config, configLoaded, driftVars, components,
                   allInstalled, i, cmds, issued, outcome, pureVars, procs, logFile, stopDapr,
                   stopTemporal, stopDaprDashboard, stoppedCount, helperVars>>

NextStop ==
    \/ StopRun
    \/ DashboardBlock
    \/ TemporalBlock
    \/ DaprBlock
    \/ OpenSearchDashboardBlock
    \/ OpenSearchBlock
    \/ Summary

StopLoaded(cfg) == [loads |-> TRUE, config |-> cfg]
StopNotLoaded == [loads |-> FALSE, config |-> ZeroStopConfig]

\* Every process present and dying on SIGTERM.
AllDie == [p \in ProcIds |-> "dies"]

\* Which components are selected and installed: every combination of
\* configuration presence, enabled flags, skip flags, --force and installed
\* commands; everything is up and stops at the first signal.
StopSelectionScenarios ==
    [localenv   : {StopNotLoaded}
                  \cup {StopLoaded(StopConfig(d, b, DefaultDashboardPort, t, o))
                         : d \in BOOLEAN, b \in BOOLEAN, t \in BOOLEAN, o \in BOOLEAN},
     flags      : [skipDapr : BOOLEAN, skipTemporal : BOOLEAN, skipDaprDashboard : BOOLEAN,
                   skipOpenSearch : BOOLEAN, force : BOOLEAN, cleanLogs : {FALSE}],
     installed  : {s \in SUBSET Commands : "kind" \in s /\ ("dapr dashboard" \in s => "dapr" \in s)},
     procs      : {AllDie},
     containers : {[c \in ContainerNames |-> "running"]},
     logFile    : {TRUE}]

\* How the processes answer: every behaviour of the two processes of the
\* dashboard block, and of the three of the Temporal block.
ProcessSetups ==
    {[NoProcs EXCEPT !.dashboard = a, !.listener = b]
        : a \in Behaviours \cup {"absent"}, b \in Behaviours \cup {"absent"}}
    \cup {[AllDie EXCEPT !.listener = "absent", !.temporal = a, !.uiOwner = b, !.grpcOwner = c]
            : a \in Behaviours \cup {"absent"}, b \in Behaviours \cup {"absent"},
              c \in Behaviours \cup {"absent"}}

StopProcessScenarios ==
    [localenv   : {StopNotLoaded, StopLoaded(DefaultStopConfig),
                   StopLoaded(StopConfig(TRUE, TRUE, 0, TRUE, TRUE))},
     flags      : {[NoStopFlags EXCEPT !.force = f, !.cleanLogs = c]
                     : f \in BOOLEAN, c \in BOOLEAN},
     installed  : {Commands},
     procs      : ProcessSetups,
     containers : {NoContainers},
     logFile    : BOOLEAN]

\* The two containers in every state, with and without podman.
StopContainerScenarios ==
    [localenv   : {StopNotLoaded, StopLoaded(DefaultStopConfig)},
     flags      : {[NoStopFlags EXCEPT !.force = f, !.skipOpenSearch = s]
                     : f \in BOOLEAN, s \in BOOLEAN},
     installed  : {Commands, Commands \ {"podman"}},
     procs      : {NoProcs, AllDie},
     containers : [ContainerNames -> {"absent", "exited", "running"}],
     logFile    : {TRUE}]

StopScenarios ==
    StopSelectionScenarios \cup StopProcessScenarios \cup StopContainerScenarios

\* The state when `localenv stop` begins.
InitStop ==
    /\ \E s \in StopScenarios :
          /\ localenv = s.localenv
          /\ flags = s.flags
          /\ installed = s.installed
          /\ procs = s.procs
          /\ containers = s.containers
          /\ logFile = s.logFile
    /\ cacheFile = ZeroCache
    /\ alive = {}
    /\ config = ZeroStopConfig
    /\ configLoaded = FALSE
    /\ configCache = ZeroCache
    /\ configChanged = FALSE
    /\ newCache = ZeroCache
    /\ changes = <<>>
    /\ components = <<>>
    /\ allInstalled = TRUE
    /\ i = 0
    /\ pc = "start"
    /\ exitCode = -1
    /\ cmds = <<>>
    /\ issued = [n \in StopComponents |-> {}]
    /\ outcome = [n \in StopComponents |-> "pending"]
    /\ call = NoCall
    /\ ret = NoRet
    /\ stopDapr = FALSE
    /\ stopTemporal = FALSE
    /\ stopDaprDashboard = FALSE
    /\ stoppedCount = 0
    /\ summary = "none"
    /\ HelperUnset

SpecStop == InitStop /\ [][NextStop]_vars

(***************************************************************************)
(* Properties                                                              *)
(***************************************************************************)

Built == pc \in {"checkInstalled", "loop", "aggregate", "done"}

LoopFinished == i > Len(ComponentNames)

SkipFlagOf ==
    [Dapr |-> flags.skipDapr, DaprDashboard |-> flags.skipDaprDashboard,
     Temporal |-> flags.skipTemporal]

\* The first liveness probe of component n ran and found it up.
FoundRunning(n) == "probe" \in issued[n] /\ n \in alive

\* C1: a run whose loaded snapshot equals the tracked values of the current
\* configuration, without force-restart, that finds Dapr, the Dapr Dashboard
\* and Temporal running on their first probe issues no kill and no start
\* command and ends with the three marked IsRunning.
C1_IdempotentStart ==
    (/\ pc = "done"
     /\ configCache = newCache
     /\ ~flags.forceRestart
     /\ \A n \in Services : FoundRunning(n))
    => /\ \A n \in Names : "kill" \notin issued[n] /\ "start" \notin issued[n]
       /\ \A n \in Services : Comp(n).IsRunning

C1_Witness ==
    /\ pc = "done"
    /\ configCache = newCache
    /\ configCache # ZeroCache
    /\ ~flags.forceRestart
    /\ \A n \in Services : FoundRunning(n) /\ outcome[n] = "alreadyRunning"
    /\ exitCode = 0

\* C and D are related by a RequiredFor list: as the dependency check reads
\* it ("C requires D" for D in C.RequiredFor) or as the list is named (D is
\* required for C).
Related(c, d) == d \in RequiredFor[c] \/ c \in RequiredFor[d]

C3_SuccessIffAllRequiredRunning ==
    pc = "done" =>
        /\ exitCode \in {0, 1}
        /\ exitCode = 0 <=>
              /\ LoopFinished
              /\ \A k \in 1..Len(components) :
                    components[k].IsRequired => components[k].IsRunning
        /\ exitCode = 0 => cacheFile = newCache

C3_Witness ==
    /\ pc = "done"
    /\ exitCode = 0
    /\ outcome["Temporal"] = "started"
    /\ outcome["Dapr"] = "started"

\* Temporal was up and the run went down the restart branch.
TemporalRestarted ==
    /\ "Temporal" \in alive
    /\ outcome["Temporal"] \in {"portStillBusy", "started", "startFailed", "unhealthy"}

\* A Temporal field whose previous value is non-zero and differs from the
\* current one.
TemporalFieldDrifted ==
    \/ configCache.TemporalUIPort # 0
       /\ configCache.TemporalUIPort # config.Temporal.UIPort
    \/ configCache.TemporalGRPCPort # 0
       /\ configCache.TemporalGRPCPort # config.Temporal.GRPCPort
    \/ configCache.TemporalNamespace # ""
       /\ configCache.TemporalNamespace # config.Temporal.Namespace

\* C4: without force-restart, a running Temporal is stopped and restarted
\* only when a Temporal field (UI port, gRPC port, namespace) has a non-zero
\* previous value that differs from the current value.
C4_TemporalRestartOnlyOnOwnDrift ==
    (~flags.forceRestart /\ TemporalRestarted) => TemporalFieldDrifted

\* C5 as stated: with a configuration loaded, a service is Required exactly
\* when its enabled flag in the file is true, whatever the skip flag.
C5_Original ==
    (Built /\ configLoaded) =>
        \A n \in Services : Comp(n).IsRequired = localenv.config.Components[n]

\* C5 amended: with a configuration loaded, a service is Required exactly
\* when its enabled flag in the file is true and its skip flag is not set;
\* a run that reaches the loop handles exactly those services.
C5_RequiredIffEnabledAndNotSkipped ==
    (Built /\ configLoaded) =>
        \A n \in Services :
            /\ Comp(n).IsRequired = (localenv.config.Components[n] /\ ~SkipFlagOf[n])
            /\ (pc = "done" /\ LoopFinished) =>
                  (outcome[n] = "notRequired"
                     <=> ~(localenv.config.Components[n] /\ ~SkipFlagOf[n]))

C5_Witness ==
    /\ pc = "done"
    /\ configLoaded
    /\ localenv.config.Components["Dapr"]
    /\ flags.skipDapr
    /\ outcome["Dapr"] = "notRequired"
    /\ outcome["Temporal"] = "started"

\* C6: each of the three requirement helpers returns configValue when
\* configLoaded is true and the negation of skipFlag when it is false.
C6_RequirementHelpers ==
    (pc = "returned" /\ call.fn \in RequirementFns) =>
        /\ call.configLoaded => ret.value = call.configValue
        /\ ~call.configLoaded => ret.value = ~call.skipFlag

C6_Witness ==
    /\ pc = "returned"
    /\ call.fn = "getTemporalRequirement"
    /\ call.configLoaded /\ call.configValue /\ call.skipFlag
    /\ ret.value

\* Some Required component's binary is missing.
RequiredBinaryMissing ==
    \E k \in 1..Len(components) :
        components[k].IsRequired /\ ~components[k].CommandExists

\* C7 as stated: when a Required component's binary is missing, every other
\* Required component that is installed and does not list it in RequiredFor
\* is still verified or started before the run ends as failed.
C7_Original ==
    (pc = "done" /\ RequiredBinaryMissing) =>
        /\ exitCode = 1
        /\ \A k \in 1..Len(components) :
              (/\ components[k].IsRequired
               /\ components[k].CommandExists
               /\ \A m \in 1..Len(components) :
                     (components[m].IsRequired /\ ~components[m].CommandExists)
                     => components[m].Name \notin components[k].RequiredFor)
              => outcome[components[k].Name] # "pending"

\* C7 amended: when a Required component's binary is missing, the run exits
\* with status 1 at the install check: the component loop is never entered
\* and no component is verified or started.
C7_MissingBinaryExitsAtInstallCheck ==
    (Built /\ pc # "checkInstalled" /\ RequiredBinaryMissing) =>
        /\ pc = "done"
        /\ exitCode = 1
        /\ i = 0
        /\ \A n \in Names : outcome[n] = "pending" /\ issued[n] = {}
        /\ \A k \in 1..Len(components) : ~components[k].IsRunning

C7_Witness ==
    /\ pc = "done"
    /\ Comp("Temporal").IsRequired /\ ~Comp("Temporal").CommandExists
    /\ Comp("Dapr").IsRequired /\ Comp("Dapr").CommandExists
    /\ "Dapr" \notin alive
    /\ exitCode = 1

FailureBranches == {"unavailable", "startFailed", "portBusy", "portStillBusy", "unhealthy"}

\* C8: once starting or verifying a component has failed in the loop, the
\* exit status is decided only after every component of the list has been
\* handled.
C8_FailureDoesNotAbortLoop ==
    (\E n \in Names : outcome[n] \in FailureBranches) =>
        /\ pc \in {"loop", "aggregate", "done"}
        /\ pc = "loop" => i \in 2..Len(ComponentNames)
        /\ exitCode # -1 =>
              /\ pc = "done"
              /\ LoopFinished
              /\ \A n \in Names : outcome[n] # "pending"

C8_Witness ==
    /\ pc = "done"
    /\ outcome["Dapr"] = "startFailed"
    /\ outcome["DaprDashboard"] = "portBusy"
    /\ outcome["Temporal"] = "started"
    /\ Comp("Temporal").IsRunning
    /\ exitCode = 1

\* The tracked fields: label of the change entry, previous and current value,
\* zero value.
TrackedFields(cfg, cache) ==
    {[label |-> "Dapr Dashboard port", old |-> cache.DaprDashboardPort,
      new |-> cfg.Dapr.DashboardPort, zero |-> 0],
     [label |-> "Temporal UI port", old |-> cache.TemporalUIPort,
      new |-> cfg.Temporal.UIPort, zero |-> 0],
     [label |-> "Temporal GRPC port", old |-> cache.TemporalGRPCPort,
      new |-> cfg.Temporal.GRPCPort, zero |-> 0]}

NamespaceField(cfg, cache) ==
    [label |-> "Temporal namespace", old |-> cache.TemporalNamespace,
     new |-> cfg.Temporal.Namespace, zero |-> ""]

HasEntry(label) == \E k \in 1..Len(ret.changes) : ret.changes[k].label = label

DriftReturned == pc = "returned" /\ call.fn = "hasConfigChanged"

\* C9 as stated: a change is recorded for a field, and hasChanges set, only
\* when its previous and its current value are both non-zero and different.
C9_Original ==
    DriftReturned =>
        LET ns == NamespaceField(call.config, call.currentCache)
            both(f) == f.old # f.zero /\ f.new # f.zero /\ f.old # f.new
        IN  /\ \A f \in TrackedFields(call.config, call.currentCache) :
                  HasEntry(f.label) => both(f)
            /\ HasEntry(ns.label) => both(ns)
            /\ ret.hasChanges =>
                  \/ \E f \in TrackedFields(call.config, call.currentCache) : both(f)
                  \/ both(ns)

\* C9 amended: a change is recorded for a field, and hasChanges set, only
\* when its previous value is non-zero and differs from the current value,
\* which may itself be zero.
C9_ChangeOnlyFromNonZeroPrevious ==
    DriftReturned =>
        LET ns == NamespaceField(call.config, call.currentCache)
            drifted(f) == f.old # f.zero /\ f.old # f.new
        IN  /\ \A f \in TrackedFields(call.config, call.currentCache) :
                  HasEntry(f.label) => drifted(f)
            /\ HasEntry(ns.label) => drifted(ns)
            /\ ret.hasChanges =>
                  \/ \E f \in TrackedFields(call.config, call.currentCache) : drifted(f)
                  \/ drifted(ns)
            /\ ret.hasChanges <=> ret.changes # <<>>

C9_Witness ==
    /\ DriftReturned
    /\ call.currentCache.DaprDashboardPort = DefaultDashboardPort
    /\ call.config.Dapr.DashboardPort = 0
    /\ call.currentCache.TemporalNamespace = call.config.Temporal.Namespace
    /\ call.config.Temporal.Namespace = "default"
    /\ ret.hasChanges
    /\ HasEntry("Dapr Dashboard port")

\* C10: against the all-zero snapshot hasConfigChanged reports no drift,
\* whatever the configuration.
C10_ZeroSnapshotNeverDrifts ==
    (DriftReturned /\ call.currentCache = ZeroCache) =>
        ~ret.hasChanges /\ ret.changes = <<>>

C10_Witness ==
    /\ DriftReturned
    /\ call.currentCache = ZeroCache
    /\ call.config.Dapr.DashboardPort = DefaultDashboardPort
    /\ call.config.Temporal.UIPort = DefaultUIPort
    /\ call.config.Temporal.Namespace = "testing"
    /\ ~ret.hasChanges

\* C11: when exactly one tracked port field differs between snapshot and
\* configuration, both values non-zero, hasConfigChanged reports drift with
\* exactly one entry, which names that field and gives the old value, then
\* the new one.
C11_SinglePortDriftReported ==
    DriftReturned =>
        LET fields == TrackedFields(call.config, call.currentCache)
            ns     == NamespaceField(call.config, call.currentCache)
        IN  \A f \in fields :
                (/\ f.old # 0 /\ f.new # 0 /\ f.old # f.new
                 /\ \A g \in fields : g.label # f.label => g.old = g.new
                 /\ ns.old = ns.new)
                => /\ ret.hasChanges
                   /\ Len(ret.changes) = 1
                   /\ ret.changes[1].label = f.label
                   /\ ret.changes[1].old = f.old
                   /\ ret.changes[1].new = f.new

C11_Witness ==
    /\ DriftReturned
    /\ call.currentCache.TemporalUIPort = DefaultUIPort
    /\ call.config.Temporal.UIPort = DefaultUIPort + 1
    /\ call.currentCache.DaprDashboardPort = call.config.Dapr.DashboardPort
    /\ call.currentCache.TemporalGRPCPort = call.config.Temporal.GRPCPort
    /\ call.currentCache.TemporalNamespace = call.config.Temporal.Namespace
    /\ Len(ret.changes) = 1
    /\ ret.changes[1].label = "Temporal UI port"

\* C12: the snapshot hasConfigChanged returns holds the tracked values of the
\* configuration it was given, whatever the previous snapshot and whether or
\* not drift was found.
C12_NewCacheReflectsConfig ==
    DriftReturned =>
        ret.newCache =
            [DaprDashboardPort |-> call.config.Dapr.DashboardPort,
             TemporalUIPort    |-> call.config.Temporal.UIPort,
             TemporalGRPCPort  |-> call.config.Temporal.GRPCPort,
             TemporalNamespace |-> call.config.Temporal.Namespace]

C12_Witness ==
    /\ DriftReturned
    /\ ret.hasChanges
    /\ call.currentCache.TemporalNamespace = "default"
    /\ call.currentCache.DaprDashboardPort = DefaultDashboardPort
    /\ ret.newCache.TemporalNamespace = "testing"
    /\ ret.newCache.DaprDashboardPort = DefaultDashboardPort + 1

\* C13: comparing a configuration against the snapshot hasConfigChanged built
\* from that same configuration reports no drift and no change entry.
C13_OwnSnapshotNeverDrifts ==
    (pc = "returned" /\ call.fn = "hasConfigChanged after saveConfigCache") =>
        ~ret.hasChanges /\ ret.changes = <<>>

C13_Witness ==
    /\ pc = "returned"
    /\ call.fn = "hasConfigChanged after saveConfigCache"
    /\ call.config.Temporal.Namespace = "testing"
    /\ call.config.Dapr.DashboardPort = DefaultDashboardPort + 1
    /\ call.currentCache.DaprDashboardPort = DefaultDashboardPort
    /\ ~ret.hasChanges

\* C14: in a run that loaded no snapshot (the zero value), without
\* force-restart, a component found running by its first probe is neither
\* killed nor started again, whatever the configuration holds.
C14_FirstRunNeverRestarts ==
    (Built /\ configCache = ZeroCache /\ ~flags.forceRestart) =>
        \A n \in Names :
            FoundRunning(n)
            => /\ "kill" \notin issued[n]
               /\ "start" \notin issued[n]
               /\ outcome[n] \in {"verified", "alreadyRunning"}
               /\ Comp(n).IsRunning

C14_Witness ==
    /\ pc = "done"
    /\ configCache = ZeroCache
    /\ ~flags.forceRestart
    /\ config.Dapr.DashboardPort = DefaultDashboardPort + 1
    /\ config.Temporal.Namespace = "testing"
    /\ FoundRunning("DaprDashboard") /\ outcome["DaprDashboard"] = "alreadyRunning"
    /\ FoundRunning("Temporal") /\ outcome["Temporal"] = "alreadyRunning"

\* The tracked values of the configuration file of this run.
CurrentTrackedValues ==
    [DaprDashboardPort |-> localenv.config.Dapr.DashboardPort,
     TemporalUIPort    |-> localenv.config.Temporal.UIPort,
     TemporalGRPCPort  |-> localenv.config.Temporal.GRPCPort,
     TemporalNamespace |-> localenv.config.Temporal.Namespace]

\* C15 as stated: when the run has ended, with success or failure, the
\* persisted snapshot holds the tracked values of the current configuration.
C15_Original ==
    pc = "done" => cacheFile = CurrentTrackedValues

\* C15 amended: when the run has ended, the persisted snapshot holds the
\* tracked values of the current configuration if the run succeeded or
\* loaded a snapshot with neither a dashboard port nor a Temporal UI port
\* (a first run); after any other failed run it is the snapshot that was
\* loaded.
C15_SnapshotSavedOnSuccessOrFirstRun ==
    pc = "done" =>
        cacheFile =
            IF \/ exitCode = 0
               \/ configCache.DaprDashboardPort = 0 /\ configCache.TemporalUIPort = 0
            THEN CurrentTrackedValues
            ELSE configCache

C15_Witness ==
    /\ pc = "done"
    /\ exitCode = 1
    /\ configCache.DaprDashboardPort = DefaultDashboardPort
    /\ localenv.config.Dapr.DashboardPort = DefaultDashboardPort + 1
    /\ cacheFile = configCache
    /\ cacheFile # CurrentTrackedValues

\* The loop has just handled component n: cmds is the log of its handling.
JustHandled(n) == pc \in {"loop", "aggregate"} /\ i = IndexOf(n) + 1

\* Positions of the log that hold command c.
Positions(log, c) == {k \in 1..Len(log) : log[k].cmd = c}

\* Positions of the log that hold command c with argument a.
PositionsWith(log, c, a) == {k \in Positions(log, c) : log[k].arg = a}

StartPositions(log) == {k \in 1..Len(log) : log[k].cmd \in StartCmds}

\* C16: with dashboard port P_old in the snapshot, another port P_new in the
\* configuration and a dashboard found running, the run sends a graceful
\* stop, then probes P_old, starts the dashboard on P_new only after P_old was
\* probed, and marks it running only after a probe that follows the start.
C16_DashboardRestartOnPortChange ==
    (/\ JustHandled("DaprDashboard")
     /\ FoundRunning("DaprDashboard")
     /\ configCache.DaprDashboardPort # 0
     /\ configCache.DaprDashboardPort # config.Dapr.DashboardPort)
    => LET pOld   == configCache.DaprDashboardPort
           pNew   == config.Dapr.DashboardPort
           kills  == Positions(cmds, "kill")
           probes == PositionsWith(cmds, "isPortInUse", pOld)
           starts == StartPositions(cmds)
       IN  /\ kills # {}
           /\ \E k \in kills : \E q \in probes : k < q
           /\ \A t \in starts :
                 /\ cmds[t].arg = pNew
                 /\ \E q \in probes : q < t
           /\ Comp("DaprDashboard").IsRunning =>
                 \E t \in starts : \E h \in 1..Len(cmds) :
                     t < h /\ cmds[h].cmd \in ProbeCmds \cup {"isPortInUse"}

\* The ports a restartable service binds.
PortsOf(n) ==
    IF n = "DaprDashboard" THEN {config.Dapr.DashboardPort}
    ELSE {config.Temporal.UIPort, config.Temporal.GRPCPort}

\* The restart branch was taken for service n.
RestartTaken(n) ==
    /\ FoundRunning(n)
    /\ outcome[n] \in {"portStillBusy", "portBusy", "started", "startFailed", "unhealthy"}

C18_ForceRestartsEveryRunningService ==
    (Built /\ flags.forceRestart) =>
        \A n \in Services :
            (Comp(n).IsRequired /\ FoundRunning(n))
            => /\ outcome[n] # "alreadyRunning"
               /\ "kill" \in issued[n] \/ "start" \in issued[n]

C19_RunningContainerLeftUntouched ==
    (~flags.forceRestart /\ ~configChanged) =>
        \A n \in DOMAIN outcome :
            (n \in {"OpenSearch", "OpenSearchDashboard"} /\ n \in alive
                /\ outcome[n] \notin {"pending", "notRequired"})
            => "remove" \notin issued[n] /\ "start" \notin issued[n]

Tools == {"Podman", "Kind"}

\* C21: a run in which the only thing that went wrong is a failed probe of
\* Podman or Kind exits with status 0.
C21_ToolProbeFailureIsWarning ==
    (/\ pc = "done"
     /\ LoopFinished
     /\ \E t \in Tools : outcome[t] = "unavailable"
     /\ \A t \in Tools : outcome[t] \in {"verified", "unavailable"}
     /\ \A n \in Services : Comp(n).IsRequired => Comp(n).IsRunning)
    => exitCode = 0

ProbesAfterStart(log) ==
    {k \in Positions(log, "checkTemporalServerRunning") :
        \E t \in StartPositions(log) : t < k}

\* C23: after `temporal server start-dev` the run probes Temporal at most
\* TemporalRetries times; when every probe fails Temporal is left not running
\* and the run goes on to the final check, which ends it with status 1.
C23_TemporalRetriesBounded ==
    /\ JustHandled("Temporal") =>
          /\ Cardinality(ProbesAfterStart(cmds)) <= TemporalRetries
          /\ outcome["Temporal"] = "unhealthy" =>
                /\ Cardinality(ProbesAfterStart(cmds)) = TemporalRetries
                /\ ~Comp("Temporal").IsRunning
                /\ pc = "aggregate"
                /\ exitCode = -1
    /\ (pc = "done" /\ outcome["Temporal"] = "unhealthy") =>
          exitCode = 1 /\ ~Comp("Temporal").IsRunning

C23_Witness ==
    /\ JustHandled("Temporal")
    /\ outcome["Temporal"] = "unhealthy"
    /\ Cardinality(ProbesAfterStart(cmds)) = TemporalRetries
    /\ pc = "aggregate"


\* C24: when the child process exits before the wait window has elapsed,
\* tryStartDashboardWithTimeout returns before the window has elapsed.
C24_ReturnsWhenChildExits ==
    (caller.pc = "returned" /\ dashboardCmd.state = "exited"
        /\ dashboardCmd.exitedAt < timeout)
    => caller.returnedAt < timeout

\* The stop run selected component n for shutdown.
Selected(n) ==
    CASE n = "DaprDashboard" -> stopDaprDashboard
      [] n = "Temporal" -> stopTemporal
      [] n = "Dapr" -> stopDapr
      [] OTHER -> stopOpenSearch

\* The command the block of component n asks for before it does anything.
Available(n) ==
    CASE n = "DaprDashboard" -> "dapr" \in installed /\ "dapr dashboard" \in installed
      [] n = "Temporal" -> "temporal" \in installed
      [] n = "Dapr" -> "dapr" \in installed
      [] OTHER -> TRUE

\* The run issued a command for component n.
Attempted(n) == issued[n] # {}

\* Component n was attempted, a signal or a removal was tried, and it did not
\* stop.
FailedToStop(n) ==
    outcome[n] = "failed" /\ issued[n] \cap {"kill", "remove", "uninstall"} # {}

\* C25: without --force, once a selected component has failed to stop, no
\* later component is attempted.
C25_FirstFailureHalts ==
    (pc # "start" /\ ~flags.force)
    => \A a \in 1..Len(StopNames) : \A b \in 1..Len(StopNames) :
          (a < b /\ FailedToStop(StopNames[a])) => ~Attempted(StopNames[b])

\* C26 as stated: with --force, a finished stop run has attempted every
\* selected component.
C26_ForceAttemptsEverySelected ==
    (pc = "done" /\ flags.force)
    => \A n \in StopComponents : Selected(n) => Attempted(n)

\* C26 amended: with --force, a finished stop run has attempted every
\* selected component whose command is installed, whichever components
\* failed before it, and has reached the closing summary.
C26_ForceAttemptsEveryAvailable ==
    (pc = "done" /\ flags.force)
    => /\ \A n \in StopComponents : (Selected(n) /\ Available(n)) => Attempted(n)
       /\ summary \in {"Local development environment has been stopped.",
                       "No components were stopped."}

C26_Witness ==
    /\ pc = "done"
    /\ flags.force
    /\ FailedToStop("DaprDashboard")
    /\ FailedToStop("Dapr")
    /\ Attempted("OpenSearchDashboard")
    /\ Attempted("OpenSearch")

\* The lookups of the block of component n will locate no running instance.
ZeroInstances(n) ==
    CASE n = "DaprDashboard" ->
            \A p \in Living(procs) :
                /\ Cmdline[p] # "dapr dashboard"
                /\ (configLoaded /\ config.Components.Dapr.DashboardPort > 0)
                      => "dashboard" \notin Listens[p]
      [] n = "Temporal" ->
            \A p \in Living(procs) :
                Cmdline[p] # "temporal server start-dev" /\ Listens[p] \cap {"ui", "grpc"} = {}
      [] n = "OpenSearchDashboard" -> containers["opensearch-dashboard"] # "running"
      [] OTHER -> containers["opensearch-node"] # "running"

\* C27: a block that is entered for a selected component and locates no
\* running instance reports the component as not running, sends no signal
\* and removes nothing, counts nothing and does not end the run.
C27_NotRunningIsNoError ==
    [][\A n \in {"DaprDashboard", "Temporal", "OpenSearchDashboard", "OpenSearch"} :
          (pc = n /\ ZeroInstances(n) /\ issued'[n] # {})
          => /\ outcome'[n] \in {"notFound", "notRunning"}
             /\ issued'[n] \cap {"kill", "remove"} = {}
             /\ stoppedCount' = stoppedCount
             /\ pc' # "done"]_vars

\* Command c is in log.
InLog(log, c) == \E k \in 1..Len(log) : log[k] = c

\* C28 as stated: under --force a process that got the graceful signal and
\* still lives (its port is not freed) has been sent kill -9; without --force
\* no kill -9 is sent.
C28_ForceEscalatesWhenPortNotFreed ==
    \A p \in ProcIds :
        /\ (flags.force /\ InLog(cmds, Cmd("kill", p)) /\ p \in Living(procs))
              => InLog(cmds, Cmd("kill -9", p))
        /\ ~flags.force => ~InLog(cmds, Cmd("kill -9", p))

\* C28 amended: kill -9 is sent to a process exactly when --force is set and
\* the `kill` command sent to it returned an error; a process that `kill`
\* signalled without error gets no kill -9, whether or not it freed its port.
C28_ForceEscalatesWhenKillFails ==
    [][\A p \in ProcIds :
          /\ InLog(cmds', Cmd("kill -9", p))
                <=> (flags.force /\ InLog(cmds', Cmd("kill", p))
                        /\ procs[p] \in {"forced", "denied"})
          /\ (InLog(cmds', Cmd("kill", p)) /\ procs[p] = "survives")
                => (procs'[p] = "survives" /\ ~InLog(cmds', Cmd("kill -9", p)))]_vars

C28_Witness ==
    /\ flags.force
    /\ outcome["Temporal"] = "stopped"
    /\ InLog(cmds, Cmd("kill -9", "temporal"))
    /\ InLog(cmds, Cmd("kill", "uiOwner"))
    /\ ~InLog(cmds, Cmd("kill -9", "uiOwner"))
    /\ procs["uiOwner"] = "survives"

\* C29: Temporal is reported stopped, and counted, only if the Temporal UI
\* port and the gRPC port are free after the kill attempts.
C29_StoppedOnlyIfPortsFree ==
    outcome["Temporal"] = "stopped"
    => (~isPortInUse(procs, "ui") /\ ~isPortInUse(procs, "grpc"))

\* C30 as stated: the log file is removed only under --clean-logs and only
\* when every selected component has been attempted.
C30_LogsRemovedAfterAllComponents ==
    [][(logFile /\ ~logFile')
        => (flags.cleanLogs
              /\ \A n \in StopComponents : Selected(n) => outcome'[n] # "pending")]_vars

\* C30 amended: the log file is removed only under --clean-logs, only in the
\* Temporal block of a run that reports Temporal stopped, after the Dapr
\* Dashboard block and before the Dapr and OpenSearch blocks.
C30_LogsRemovedInTemporalBlock ==
    [][(logFile /\ ~logFile')
        => /\ flags.cleanLogs
           /\ pc = "Temporal"
           /\ outcome'["Temporal"] = "stopped"
           /\ outcome'["DaprDashboard"] # "pending"
           /\ \A n \in {"Dapr", "OpenSearchDashboard", "OpenSearch"} :
                 outcome'[n] = "pending"]_vars

C30_Witness ==
    /\ ~logFile
    /\ flags.cleanLogs
    /\ "clean" \in issued["Temporal"]
    /\ Selected("Dapr")
    /\ outcome["Dapr"] = "pending"

\* The inputs of the stop run as the start run reads them: the same file
\* (loaded or not, the three enabled flags) and the same skip flags.
StartConfigOfStop ==
    [ZeroConfig EXCEPT !.Components =
        [Dapr          |-> localenv.config.Components.Dapr.Enabled,
         Temporal      |-> localenv.config.Components.Temporal.Enabled,
         DaprDashboard |-> localenv.config.Components.Dapr.Dashboard]]

StartFlagsOfStop ==
    [skipDapr |-> flags.skipDapr, skipTemporal |-> flags.skipTemporal,
     skipDaprDashboard |-> flags.skipDaprDashboard, forceRestart |-> FALSE]

\* IsRequired of service n in a start run on the inputs of the stop run.
RequiredByStart(n) ==
    IsRequiredOf(n, localenv.loads, ApplySkipFlags(StartConfigOfStop, StartFlagsOfStop),
                 StartFlagsOfStop)

\* C31: for every combination of configuration loaded, component enabled and
\* skip flag, the stop run selects Dapr, the Dapr Dashboard and Temporal
\* exactly when a start run on the same inputs treats them as Required.
C31_StopSelectsWhatStartRequires ==
    pc # "start"
    => /\ stopDapr = RequiredByStart("Dapr")
       /\ stopDaprDashboard = RequiredByStart("DaprDashboard")
       /\ stopTemporal = RequiredByStart("Temporal")

C31_Witness ==
    /\ pc # "start"
    /\ configLoaded
    /\ config.Components.Dapr.Enabled
    /\ flags.skipDapr
    /\ ~stopDapr
    /\ ~config.Components.Temporal.Enabled
    /\ ~flags.skipTemporal
    /\ ~stopTemporal
    /\ stopDaprDashboard

\* Position of component n in the loop of the start run.
StartPos(n) == CHOOSE k \in 1..Len(StartOrder) : StartOrder[k] = n

\* The block of component n is over.
BlockDone(n) == outcome[n] # "pending"

ReversedPairs ==
    {<<"Dapr", "DaprDashboard">>, <<"Dapr", "Temporal">>,
     <<"OpenSearch", "OpenSearchDashboard">>}

C33_FailedStopExitsNonZero ==
    (pc = "done" /\ \E n \in StopComponents : Selected(n) /\ FailedToStop(n))
    => exitCode # 0

\* The file is missing, unreadable or malformed.
Malformed(file) ==
    file.kind \in {"missing", "unreadable", "syntaxError"} \/ file.mistyped # {}

\* C34: loadConfigCache returns the all-zero snapshot whenever the snapshot
\* file is missing, unreadable or malformed.
C34_BadCacheFileGivesZero ==
    (pc = "returned" /\ call.fn = "loadConfigCache" /\ Malformed(call.file))
    => ret.cache = ZeroCache

\* The child command has finished: it could not be launched, or it exited.
ChildFinished == dashboardCmd.state \in {"exited", "spawnFailed"}

C37_LauncherTerminates == ChildFinished ~> (launcher.pc = "done")

C37_Witness ==
    /\ caller.pc = "returned"
    /\ caller.value
    /\ launcher.pc = "done"
    /\ Len(resultChan) = 1

\* The ports a component is configured to listen on, probed before its start.
ConfiguredPorts(n) ==
    IF n = "DaprDashboard" THEN {config.Dapr.DashboardPort}
    ELSE {config.Temporal.UIPort, config.Temporal.GRPCPort}

\* C36: when the Dapr Dashboard or Temporal was not found running and the
\* probe of one of its configured ports reports the port occupied, the run
\* issues no start (and no kill) command for it, probes each configured port
\* at most once, leaves the component not running and ends with status 1.
C36_BusyPortBlocksStart ==
    \A n \in {"DaprDashboard", "Temporal"} :
        (outcome[n] = "portBusy" /\ n \notin alive) =>
            /\ "start" \notin issued[n]
            /\ "kill" \notin issued[n]
            /\ ~Comp(n).IsRunning
            /\ JustHandled(n) =>
                  /\ StartPositions(cmds) = {}
                  /\ Positions(cmds, "isPortInUse") # {}
                  /\ \A k \in Positions(cmds, "isPortInUse") :
                        cmds[k].arg \in ConfiguredPorts(n)
                  /\ Cardinality(Positions(cmds, "isPortInUse")) <= 2
                  /\ \A k \in Positions(cmds, "isPortInUse") : k > Len(cmds) - 2
            /\ pc = "done" => exitCode = 1

C36_Witness ==
    /\ pc = "done"
    /\ exitCode = 1
    /\ outcome["Temporal"] = "portBusy"
    /\ outcome["DaprDashboard"] = "portBusy"
    /\ alive = {}
    /\ Comp("Dapr").IsRunning

\* A component that is not Required and whose binary is not installed.
AbsentAndNotRequired(d) == ~Comp(d).IsRequired /\ ~Comp(d).CommandExists

\* C38: a component that is not Required and whose binary is missing never
\* makes the run skip a Required component for a missing dependency, and
\* when every Required component is installed and healthy the run still
\* verifies Podman and Kind and exits with status 0.
C38_AbsentOptionalIsHarmless ==
    Built =>
        /\ \A c \in Names :
              (Comp(c).IsRequired /\ outcome[c] = "missingDeps")
              => \E d \in Names : Comp(d).IsRequired /\ ~Comp(d).CommandExists
        /\ (/\ pc = "done"
            /\ \E d \in Names : AbsentAndNotRequired(d)
            /\ \A c \in Names : Comp(c).IsRequired =>
                  Comp(c).CommandExists /\ c \in alive)
           => /\ outcome["Podman"] = "verified"
              /\ outcome["Kind"] = "verified"
              /\ exitCode = 0

\* C39: a start run leaves the configuration file it loaded as it found it
\* and does not go on with a component enabled that the file had disabled.
C39_LoadedConfigIsReadOnly ==
    (pc = "returned" /\ call.fn = "loadConfig" /\ ret.value)
    => /\ ret.envFile = call.envFile
       /\ ~call.envFile.openSearch.Enabled => ~ret.openSearch.Enabled

=============================================================================
